---- MODULE Spec2Model ----
(***************************************************************************)
(* A model of the solving session of minizinc-python:                      *)
(* Instance.solve_async / Instance.solutions (src/src/minizinc/instance.py)*)
(* with the two stream decoders (_seperate_solutions, and                  *)
(* decode_async_json_stream / decode_json_stream of json.py), the status   *)
(* resolution (Status.from_output of result.py), the stderr drain          *)
(* (_read_all) and the subprocess with its two pipes.                      *)
(*                                                                         *)
(* The stdout stream is a sequence of units.  A unit is one indivisible    *)
(* piece of output: the text of a JSON value, a line break, the ten dashes *)
(* of the separator, a banner.  Sizes (the StreamReader limit, the pipe    *)
(* capacity) are counted in units.                                         *)
(***************************************************************************)
EXTENDS Integers, Sequences, FiniteSets, TLC

VARIABLES
    protocol,       \* "structured" iff driver.parsed_version >= (2, 6, 0)
    cancel,         \* "never", "armed" (the caller will cancel the task), "closing"
                    \* (the caller iterates solutions() itself and may stop), or the
                    \* pc at which the CancelledError was thrown into solutions()
    method,         \* Instance.method: "SATISFY" or "MINIMIZE"
    multiple,       \* solve_async: multiple_solutions
    timeout,        \* <<>> (None) or <<t>>: the caller's timeout
    now,            \* wall clock
    prog,           \* the units the subprocess writes to stdout, in order
    hangs,          \* the subprocess never exits of its own accord
    errLeft,        \* stderr units the subprocess still has to write
    outFed,         \* number of units of prog fed to the stdout StreamReader
    procState,      \* "none", "running", "exited"
    exitCode,       \* the return code of the exited subprocess
    reaped,         \* transport._returncode is not None
    buffer,         \* stdout StreamReader._buffer
    eof,            \* stdout StreamReader._eof (the stdout pipe is disconnected)
    errPipe,        \* units in the OS pipe of stderr
    errBuf,         \* units in the stderr StreamReader._buffer
    errPaused,      \* the stderr transport has paused reading (flow control)
    errEof,         \* stderr StreamReader._eof (the stderr pipe is disconnected)
    errOut,         \* _read_all: units collected in output
    errTask,        \* read_stderr: "none", "running", "done"
    pc,             \* position of the solutions() generator ("read": suspended in
                    \* readuntil; "yield", "yield_final": suspended at a yield)
    waiting,        \* an exit waiter of proc.wait() is registered
    acc,            \* the decoder's local accumulator (solution / buffer)
    status,         \* solutions(): status
    last_status,    \* solutions(): last_status
    statistics,     \* solutions(): statistics
    code,           \* solutions(): code
    remainder,      \* err.partial of the IncompleteReadError being handled
    pending,        \* the exception being handled by the last except clause
    terminated,     \* proc.terminate() has been called
    decoded,        \* the chunks handed to a decoder (loads / parse_solution), in order
    results,        \* the Results yielded by solutions(), in order
    sa,             \* solve_async: [status, solution, statistics]
    outcome,        \* "none", "returned", "raised", "closed"
    raisedErr,      \* the exception solve_async raised
    call,           \* one call of a library function: [fn, args, ret]
    objs,           \* the Model and the Instances, in the order of their creation
    types,          \* the dataclasses make_dataclass has generated: their fields
    blocked,        \* per thread: the call that waits for a lock, or None
    last,           \* the last call that returned or raised: [t, op, obj, key, arg, exc, value]
    ncalls          \* calls made so far

apiVars == <<call, objs, types, blocked, last, ncalls>>

sessionVars == <<protocol, cancel, method, multiple, timeout, now, prog, hangs, errLeft, outFed,
          procState, exitCode, reaped, buffer, eof, errPipe, errBuf, errPaused,
          errEof, errOut, errTask, pc, waiting, acc, status, last_status,
          statistics, code, remainder, pending, terminated, decoded, results, sa,
          outcome, raisedErr>>

vars == <<sessionVars, apiVars>>

----------------------------------------------------------------------------
(* Bounds *)

Limit == 3          \* StreamReader limit (asyncio's default is 2**16 bytes), in units
PipeCap == 2        \* capacity of the OS pipe of stderr, in units
MaxTime == 3        \* the clock stops here
Grace == 1          \* the grace period after the caller's timeout
MaxMsgs == 2        \* most JSON lines / legacy solutions of a stdout stream

----------------------------------------------------------------------------
(* Units and Python values *)

None == <<>>
Some(x) == <<x>>

NL == "nl"
DASHES == "----------"
SEPARATOR == <<DASHES, NL>>
JSONLINE == <<NL>>

EmptyDict == [k \in {} |-> 0]
Put(d, k, v) == [x \in (DOMAIN d) \cup {k} |-> IF x = k THEN v ELSE d[x]]
Pop(d, k) == [x \in (DOMAIN d) \ {k} |-> d[x]]
Update(d, e) == [x \in (DOMAIN d) \cup (DOMAIN e) |-> IF x \in DOMAIN e THEN e[x] ELSE d[x]]

Prefix(s, n) == SubSeq(s, 1, n)
Suffix(s, n) == SubSeq(s, n + 1, Len(s))

RECURSIVE Flatten(_)
Flatten(ss) == IF ss = <<>> THEN <<>> ELSE Head(ss) \o Flatten(Tail(ss))

----------------------------------------------------------------------------
(* asyncio.StreamReader, as the decoders use it *)

\* bytes.find(sep): the first 0-based index at which sep occurs in buf, or -1
Find(buf, sep) ==
    LET hits == {i \in 0..(Len(buf) - Len(sep)) : SubSeq(buf, i + 1, i + Len(sep)) = sep}
    IN  IF hits = {} THEN -1 ELSE CHOOSE i \in hits : \A j \in hits : i <= j

\* StreamReader.at_eof()
AtEof(buf, isEof) == isEof /\ buf = <<>>

\* One attempt of StreamReader.readuntil(sep) on the buffer as it stands:
\* "data" (n units are returned), "overrun" (LimitOverrunError(consumed)),
\* "incomplete" (IncompleteReadError with the whole buffer), or "wait".
ReadUntil(buf, isEof, sep) ==
    LET seplen == Len(sep)
        buflen == Len(buf)
        isep   == IF buflen >= seplen THEN Find(buf, sep) ELSE -1
    IN  IF isep # -1
        THEN IF isep > Limit
             THEN [kind |-> "overrun", n |-> isep]
             ELSE [kind |-> "data", n |-> isep + seplen]
        ELSE IF buflen >= seplen /\ buflen + 1 - seplen > Limit
             THEN [kind |-> "overrun", n |-> buflen + 1 - seplen]
             ELSE IF isEof
                  THEN [kind |-> "incomplete", n |-> buflen]
                  ELSE [kind |-> "wait", n |-> 0]

\* bytes.split(sep)
RECURSIVE Split(_, _)
Split(s, sep) ==
    LET i == Find(s, sep)
    IN  IF i = -1 THEN <<s>>
        ELSE <<Prefix(s, i)>> \o Split(Suffix(s, i + Len(sep)), sep)

\* bytes.strip()
IsSpace(u) == u \in {NL, " "}
RECURSIVE LStrip(_)
LStrip(s) == IF s # <<>> /\ IsSpace(Head(s)) THEN LStrip(Tail(s)) ELSE s
RECURSIVE RStrip(_)
RStrip(s) == IF s # <<>> /\ IsSpace(s[Len(s)]) THEN RStrip(Prefix(s, Len(s) - 1)) ELSE s
Strip(s) == RStrip(LStrip(s))

----------------------------------------------------------------------------
(* JSON lines of the structured protocol.  A JSON object is written as an  *)
(* opening unit (its type and content), any number of "pad" units (more    *)
(* content of the same object) and the closing unit "}".                   *)

StatusNames == {"ERROR", "UNKNOWN", "UNBOUNDED", "UNSATISFIABLE", "SATISFIED",
                "ALL_SOLUTIONS", "OPTIMAL_SOLUTION"}

\* A decoded object: objective is output.json._objective (None when the key
\* is absent), hasTime tells whether the object has the key "time"
NoObj == [type |-> "", sol |-> 0, objective |-> <<>>, hasTime |-> FALSE, time |-> 0,
          key |-> "", val |-> 0, status |-> "", what |-> ""]

ObjOf(open) ==
    CASE open = "{solution:1" ->
            [NoObj EXCEPT !.type = "solution", !.sol = 1, !.hasTime = TRUE, !.time = 1]
      [] open = "{solution:2" ->
            [NoObj EXCEPT !.type = "solution", !.sol = 2, !.hasTime = TRUE, !.time = 2]
      [] open = "{solution:_objective=5" ->
            [NoObj EXCEPT !.type = "solution", !.sol = 3, !.objective = <<5>>]
      [] open = "{statistics" -> [NoObj EXCEPT !.type = "statistics", !.key = "nodes", !.val = 7]
      [] open = "{time" -> [NoObj EXCEPT !.type = "time", !.hasTime = TRUE, !.time = 5]
      [] open = "{checker" -> [NoObj EXCEPT !.type = "checker", !.val = 9]
      [] open = "{warning" -> [NoObj EXCEPT !.type = "warning"]
      [] open = "{error:warning" -> [NoObj EXCEPT !.type = "error", !.what = "warning"]
      [] open = "{error" -> [NoObj EXCEPT !.type = "error", !.what = "evaluation error"]
      [] open = "{status:ERROR" -> [NoObj EXCEPT !.type = "status", !.status = "ERROR"]
      [] open = "{status:UNKNOWN" -> [NoObj EXCEPT !.type = "status", !.status = "UNKNOWN"]
      [] open = "{status:UNBOUNDED" -> [NoObj EXCEPT !.type = "status", !.status = "UNBOUNDED"]
      [] open = "{status:UNSATISFIABLE" -> [NoObj EXCEPT !.type = "status", !.status = "UNSATISFIABLE"]
      [] open = "{status:SATISFIED" -> [NoObj EXCEPT !.type = "status", !.status = "SATISFIED"]
      [] open = "{status:ALL_SOLUTIONS" -> [NoObj EXCEPT !.type = "status", !.status = "ALL_SOLUTIONS"]
      [] open = "{status:OPTIMAL_SOLUTION" -> [NoObj EXCEPT !.type = "status", !.status = "OPTIMAL_SOLUTION"]
      [] OTHER -> NoObj

\* json.loads(line): the object, or no object (JSONDecodeError)
Loads(line) ==
    IF /\ Len(line) >= 2
       /\ ObjOf(line[1]) # NoObj
       /\ line[Len(line)] = "}"
       /\ \A i \in 2..(Len(line) - 1) : line[i] = "pad"
    THEN Some(ObjOf(line[1]))
    ELSE None

\* Status.from_str: the Status member a status message names
from_str(s) ==
    CASE s = "ERROR" -> "ERROR"
      [] s = "UNKNOWN" -> "UNKNOWN"
      [] s = "UNBOUNDED" -> "UNBOUNDED"
      [] s = "UNSATISFIABLE" -> "UNSATISFIABLE"
      [] s = "SATISFIED" -> "SATISFIED"
      [] s = "ALL_SOLUTIONS" -> "ALL_SOLUTIONS"
      [] s = "OPTIMAL_SOLUTION" -> "OPTIMAL_SOLUTION"

\* What decode_json_stream / decode_async_json_stream do with one stripped,
\* non-empty line: raise, warn, or yield the object.
DecodeLine(line) ==
    LET o == Loads(line)
    IN  IF o = None THEN [kind |-> "raise", err |-> "JSONDecodeError", obj |-> NoObj]
        ELSE IF o[1].type = "warning" \/ (o[1].type = "error" /\ o[1].what = "warning")
        THEN [kind |-> "warn", err |-> "", obj |-> o[1]]
        ELSE IF o[1].type = "error"
        THEN [kind |-> "raise", err |-> "MiniZincError", obj |-> o[1]]
        ELSE [kind |-> "yield", err |-> "", obj |-> o[1]]

\* Instance._parse_stream_obj; exc is the exception it raises ("" when none):
\* obj["time"] of an object without that key is a KeyError
_parse_stream_obj(obj, stats) ==
    CASE obj.type = "solution" ->
            LET chk == IF "_checker" \in DOMAIN stats THEN Some(stats["_checker"]) ELSE None
                st1 == IF "_checker" \in DOMAIN stats THEN Pop(stats, "_checker") ELSE stats
            IN  IF obj.hasTime
                THEN [solution |-> Some([id |-> obj.sol, checker |-> chk,
                                         objective |-> obj.objective]),
                      status |-> None,
                      statistics |-> Put(st1, "time", obj.time),
                      exc |-> ""]
                ELSE [solution |-> None, status |-> None, statistics |-> st1,
                      exc |-> "KeyError"]
      [] obj.type = "time" ->
            [solution |-> None, status |-> None, statistics |-> Put(stats, "time", obj.time),
             exc |-> ""]
      [] obj.type = "statistics" ->
            [solution |-> None, status |-> None, statistics |-> Put(stats, obj.key, obj.val),
             exc |-> ""]
      [] obj.type = "status" ->
            [solution |-> None, status |-> Some(from_str(obj.status)), statistics |-> stats,
             exc |-> ""]
      [] obj.type = "checker" ->
            [solution |-> None, status |-> None, statistics |-> Put(stats, "_checker", obj.val),
             exc |-> ""]
      [] OTHER ->
            [solution |-> None, status |-> None, statistics |-> stats, exc |-> ""]

Result(st, sol, stats) == [status |-> st, solution |-> sol, statistics |-> stats]

\* A faulty variant of the loop body, to compare with HandleObj: the
\* statistics are not cleared after a Result was yielded
HandleObjKeepsStatistics(f, obj, inLoop) ==
    LET p == _parse_stream_obj(obj, f.statistics)
    IN  IF p.exc # ""
        THEN [f EXCEPT !.exc = p.exc, !.statistics = p.statistics]
        ELSE IF p.status # None
        THEN [f EXCEPT !.status = p.status[1], !.statistics = p.statistics]
        ELSE IF p.solution # None
        THEN LET st == IF f.status = "UNKNOWN" THEN "SATISFIED" ELSE f.status
             IN  [f EXCEPT !.status = st,
                           !.last_status = IF inLoop THEN st ELSE @,
                           !.statistics = p.statistics,
                           !.yields = Append(@, Result(st, p.solution, p.statistics))]
        ELSE [f EXCEPT !.statistics = p.statistics]

\* The body of the two structured loops of solutions() for one decoded object.
\* f is the frame [status, last_status, statistics, yields]; inLoop tells the
\* streaming loop (which also sets last_status) from the remainder loop.
\* The frame's exc is the exception that left the body ("" when none did).
HandleObj(f, obj, inLoop) ==
    LET p == _parse_stream_obj(obj, f.statistics)
    IN  IF p.exc # ""
        THEN [f EXCEPT !.exc = p.exc, !.statistics = p.statistics]
        ELSE IF p.status # None
        THEN [f EXCEPT !.status = p.status[1], !.statistics = p.statistics]
        ELSE IF p.solution # None
        THEN LET st == IF f.status = "UNKNOWN" THEN "SATISFIED" ELSE f.status
             IN  [f EXCEPT !.status = st,
                           !.last_status = IF inLoop THEN st ELSE @,
                           !.statistics = EmptyDict,
                           !.yields = Append(@, Result(st, p.solution, p.statistics))]
        ELSE [f EXCEPT !.statistics = p.statistics]

\* decode_json_stream(remainder) driven by the remainder loop of solutions():
\* the lines of the remainder in order, until one raises.
RECURSIVE DecodeRemainder(_, _)
DecodeRemainder(lines, f) ==
    IF lines = <<>> \/ f.exc # "" THEN f
    ELSE LET line == Strip(Head(lines))
         IN  IF line = <<>> THEN DecodeRemainder(Tail(lines), f)
             ELSE LET d == DecodeLine(line)
                  IN  CASE d.kind = "raise" -> [f EXCEPT !.exc = d.err]
                        [] d.kind = "warn" -> DecodeRemainder(Tail(lines), f)
                        [] OTHER -> DecodeRemainder(Tail(lines), HandleObj(f, d.obj, FALSE))

----------------------------------------------------------------------------
(* The legacy protocol *)

LegacySols == {"{x:1}", "{x:2}"}
Banners == {"=====ERROR=====", "=====UNKNOWN=====", "=====UNSATISFIABLE=====",
            "=====UNSATorUNBOUNDED=====", "=====UNBOUNDED=====", "=========="}
STAT == "%%%mzn-stat: nodes=7"
TIME == "% time elapsed: 0.5 s"

\* pattern in output, for the patterns that are units of the stream
In(pattern, output) == \E i \in 1..Len(output) : output[i] = pattern

\* A faulty variant of the status resolution, to compare with from_output:
\* the method of the instance is not looked at
from_outputIgnoringMethod(output, m) ==
    IF In("=====ERROR=====", output) THEN "ERROR"
    ELSE IF In("=====UNKNOWN=====", output) THEN "UNKNOWN"
    ELSE IF In("=====UNSATISFIABLE=====", output) THEN "UNSATISFIABLE"
    ELSE IF In("=====UNSATorUNBOUNDED=====", output) \/ In("=====UNBOUNDED=====", output)
         THEN "UNBOUNDED"
    ELSE IF In("==========", output) THEN "ALL_SOLUTIONS"
    ELSE IF In(DASHES, output) THEN "SATISFIED"
    ELSE "UNKNOWN"

\* Status.from_output
from_output(output, m) ==
    IF In("=====ERROR=====", output) THEN "ERROR"
    ELSE IF In("=====UNKNOWN=====", output) THEN "UNKNOWN"
    ELSE IF In("=====UNSATISFIABLE=====", output) THEN "UNSATISFIABLE"
    ELSE IF In("=====UNSATorUNBOUNDED=====", output) \/ In("=====UNBOUNDED=====", output)
         THEN "UNBOUNDED"
    ELSE IF m = "SATISFY"
         THEN IF In("==========", output) THEN "ALL_SOLUTIONS"
              ELSE IF In(DASHES, output) THEN "SATISFIED"
              ELSE "UNKNOWN"
         ELSE IF In("==========", output) THEN "OPTIMAL_SOLUTION"
              ELSE IF In(DASHES, output) THEN "SATISFIED"
              ELSE "UNKNOWN"

\* parse_solution: the JSON object of the chunk, when it holds one, and the
\* statistics of its comment lines
parse_solution(raw) ==
    LET sols == SelectSeq(raw, LAMBDA u : u \in LegacySols)
        st1  == IF In(STAT, raw) THEN Put(EmptyDict, "nodes", 7) ELSE EmptyDict
        st2  == IF In(TIME, raw) THEN Put(st1, "time", 5) ELSE st1
    IN  [solution |-> IF sols = <<>> THEN None
                      ELSE Some([id |-> IF sols[1] = "{x:1}" THEN 1 ELSE 2, checker |-> None,
                                 objective |-> None]),
         statistics |-> st2]

\* A faulty variant of the remainder loop, to compare with LegacyRemainder:
\* a part of the remainder that holds no solution yields no Result
RECURSIVE LegacyRemainderSolutionsOnly(_, _)
LegacyRemainderSolutionsOnly(parts, f) ==
    IF parts = <<>> THEN f
    ELSE LET res == Head(parts)
             st  == from_output(res, method)
             p   == parse_solution(res)
         IN  LegacyRemainderSolutionsOnly(Tail(parts),
                 IF p.solution = None THEN f
                 ELSE [f EXCEPT !.status = st,
                                !.statistics = p.statistics,
                                !.yields = Append(@, Result(st, p.solution, p.statistics))])

\* The remainder loop of solutions() for the legacy protocol
RECURSIVE LegacyRemainder(_, _)
LegacyRemainder(parts, f) ==
    IF parts = <<>> THEN f
    ELSE LET res == Head(parts)
             st  == from_output(res, method)
             p   == parse_solution(res)
         IN  LegacyRemainder(Tail(parts),
                 [f EXCEPT !.status = st,
                           !.statistics = p.statistics,
                           !.yields = Append(@, Result(st, p.solution, p.statistics))])

----------------------------------------------------------------------------
(* solve_async: the body of its loop over solutions().  Its solution is   *)
(* None, one solution or a list of solutions: kind tells which, val holds  *)
(* the solutions.                                                          *)

PyNone == [kind |-> "None", val |-> <<>>]
PyOne(x) == [kind |-> "one", val |-> <<x>>]
PyList(xs) == [kind |-> "list", val |-> xs]

\* Faulty variants of the loop body, to compare with Consume: one that puts
\* a new solution at the head of the list, and one that keeps the first
\* solution of a single-solution session
ConsumePrepends(s, result) ==
    [status |-> result.status,
     statistics |-> Update(s.statistics, result.statistics),
     solution |-> IF result.solution # None
                  THEN IF multiple THEN PyList(<<result.solution[1]>> \o s.solution.val)
                       ELSE PyOne(result.solution[1])
                  ELSE s.solution]

ConsumeKeepsFirst(s, result) ==
    [status |-> result.status,
     statistics |-> Update(s.statistics, result.statistics),
     solution |-> IF result.solution # None
                  THEN IF multiple THEN PyList(Append(s.solution.val, result.solution[1]))
                       ELSE IF s.solution = PyNone THEN PyOne(result.solution[1])
                       ELSE s.solution
                  ELSE s.solution]

Consume(s, result) ==
    [status |-> result.status,
     statistics |-> Update(s.statistics, result.statistics),
     solution |-> IF result.solution # None
                  THEN IF multiple THEN PyList(Append(s.solution.val, result.solution[1]))
                       ELSE PyOne(result.solution[1])
                  ELSE s.solution]

RECURSIVE ConsumeAll(_, _)
ConsumeAll(s, rs) == IF rs = <<>> THEN s ELSE ConsumeAll(Consume(s, Head(rs)), Tail(rs))

----------------------------------------------------------------------------
(* The streams a subprocess may write *)

Pads(n) == [i \in 1..n |-> "pad"]

\* One JSON line: term is "nl" (complete line), "open" (complete object, no
\* line break after it) or "cut" (the object is cut short)
Line(open, npad, term) ==
    <<open>> \o Pads(npad) \o
    (CASE term = "nl" -> <<"}", NL>> [] term = "open" -> <<"}">> [] OTHER -> <<>>)

Opens == {"{solution:1", "{solution:2", "{statistics", "{time", "{checker",
          "{warning", "{error:warning", "{error",
          "{status:UNKNOWN", "{status:UNSATISFIABLE", "{status:OPTIMAL_SOLUTION"}

\* Streams of complete short lines
RECURSIVE Lines(_)
Lines(n) ==
    IF n = 0 THEN {<<>>}
    ELSE Lines(n - 1) \cup {p \o Line(o, 0, "nl") : p \in Lines(n - 1), o \in Opens}

\* Streams whose solution message has the required keys only (type and
\* output.json, here with _objective)
MinimalProgs ==
    {Line("{solution:_objective=5", 0, t) : t \in {"nl", "open"}} \cup
    {Line("{solution:_objective=5", 0, "nl") \o Line("{status:OPTIMAL_SOLUTION", 0, "nl")}

\* Streams that end with a warning that lacks its line break, one of them
\* with a warning before a solution as well
WarningTails(m) ==
    {p \o Line(o, 0, "open") : p \in Lines(m - 1), o \in {"{warning", "{error:warning"}}
    \cup {Line("{warning", 0, "nl") \o Line("{solution:1", 0, "nl")
             \o Line("{error:warning", 0, "open")}

\* ... whose last line may be long (longer than the limit), lack its line
\* break, or be cut short
StructuredProgs(m) ==
    Lines(m) \cup MinimalProgs \cup WarningTails(m) \cup
    {p \o Line(o, n, t) : p \in Lines(m - 1),
                          o \in {"{solution:1", "{statistics", "{status:OPTIMAL_SOLUTION"},
                          n \in {0, Limit, Limit + 1}, t \in {"nl", "open", "cut"}}

\* One legacy solution: its JSON text, ncomment comment lines, the separator
LegacySolution(sol, ncomment) ==
    <<sol, NL>> \o Flatten([i \in 1..ncomment |-> <<TIME, NL>>]) \o SEPARATOR

RECURSIVE LegacySolutions(_)
LegacySolutions(n) ==
    IF n = 0 THEN {<<>>}
    ELSE LegacySolutions(n - 1) \cup
         {p \o LegacySolution(x, c) : p \in LegacySolutions(n - 1), x \in LegacySols, c \in {0, 1}}

\* What follows the last separator
LegacyTails ==
    {<<>>, <<STAT, NL>>, <<DASHES>>, <<"{x:1}", NL, DASHES>>}
    \cup {<<b, NL>> : b \in Banners}
    \cup {<<b, NL, STAT, NL>> : b \in {"==========", "=====UNKNOWN====="}}
    \cup {<<TIME, NL, STAT, NL>> \o Pads(Limit - 3) \o <<b, NL>> : b \in {"=========="}}

LegacyProgs(m) == {p \o t : p \in LegacySolutions(m), t \in LegacyTails}

----------------------------------------------------------------------------
(* The initial state: solve_async has been called, nothing has run yet *)

InitSession ==
    /\ now = 0
    /\ outFed = 0
    /\ procState = "none"
    /\ exitCode = 0
    /\ reaped = FALSE
    /\ buffer = <<>>
    /\ eof = FALSE
    /\ errPipe = 0
    /\ errBuf = 0
    /\ errPaused = FALSE
    /\ errEof = FALSE
    /\ errOut = 0
    /\ errTask = "none"
    /\ pc = "start"
    /\ waiting = FALSE
    /\ acc = <<>>
    /\ status = "UNKNOWN"
    /\ last_status = "UNKNOWN"
    /\ statistics = EmptyDict
    /\ code = 0
    /\ remainder = <<>>
    /\ pending = ""
    /\ terminated = FALSE
    /\ decoded = <<>>
    /\ results = <<>>
    /\ sa = [status |-> "UNKNOWN",
             solution |-> IF multiple THEN PyList(<<>>) ELSE PyNone,
             statistics |-> EmptyDict]
    /\ outcome = "none"
    /\ raisedErr = ""

\* No library function is being called
NoCall == [fn |-> "none", args |-> <<>>, ret |-> <<>>]
NoObjects ==
    /\ objs = <<>> /\ types = <<>> /\ blocked = [t \in {1, 2} |-> <<>>]
    /\ last = <<>> /\ ncalls = 0

\* Sessions that differ in the stdout stream, of at most m messages
InitDecode(m) ==
    /\ \/ protocol = "structured" /\ prog \in StructuredProgs(m) /\ method = "MINIMIZE"
       \/ protocol = "legacy" /\ prog \in LegacyProgs(m) /\ method \in {"SATISFY", "MINIMIZE"}
    /\ multiple \in BOOLEAN
    /\ timeout = None
    /\ hangs = FALSE
    /\ errLeft = 0
    /\ cancel = "never"

SmallProgs ==
    {<<>>, Line("{solution:1", 0, "nl"),
     Line("{solution:1", 0, "nl") \o Line("{status:OPTIMAL_SOLUTION", 0, "nl")}

\* Sessions that differ in what is written to stderr, in the caller's
\* timeout and in whether the solver ever stops
InitProcess ==
    /\ protocol = "structured"
    /\ prog \in SmallProgs
    /\ method = "MINIMIZE"
    /\ multiple \in BOOLEAN
    /\ \/ timeout = None /\ hangs = FALSE /\ errLeft \in {1, PipeCap + 1, 2 * Limit + PipeCap + 2}
       \/ timeout = Some(1) /\ hangs \in BOOLEAN /\ errLeft = 0
    /\ cancel = "never"

\* Sessions whose caller cancels the task that consumes them, at any point
\* at which that task is suspended
InitCancel ==
    /\ protocol = "structured"
    /\ prog \in SmallProgs \cup {Line("{error", 0, "nl")}
    /\ method = "MINIMIZE"
    /\ multiple = FALSE
    /\ timeout = None
    /\ hangs \in BOOLEAN
    /\ errLeft = 0
    /\ cancel = "armed"

Init == (InitDecode(MaxMsgs) \/ InitProcess \/ InitCancel) /\ InitSession /\ call = NoCall /\ NoObjects

\* The sessions whose progress is followed to their end: the streams are one
\* message shorter
InitFair == (InitDecode(MaxMsgs - 1) \/ InitProcess \/ InitCancel) /\ InitSession
            /\ call = NoCall /\ NoObjects

----------------------------------------------------------------------------
(* The event loop, the subprocess and its pipes *)

Sep == IF protocol = "structured" THEN JSONLINE ELSE SEPARATOR

WaitPcs == {"wait_loop", "wait_eof", "wait_term"}

\* transport._finished: the process is reaped and both pipes are disconnected
Finished == reaped /\ eof /\ errEof

\* The generator is suspended: it awaits the creation of the process, stdout
\* data, the exit of the process or the stderr task, or its caller has not
\* asked for the next Result; callbacks of the stdout pipe run only then
Blocked ==
    \/ pc = "spawning"
    \/ pc \in {"yield", "yield_final"}
    \/ pc = "read" /\ ReadUntil(buffer, eof, Sep).kind = "wait"
    \/ pc \in WaitPcs /\ waiting
    \/ pc = "await_stderr"
    \/ pc = "done"

\* The subprocess writes k more units to stdout and the loop feeds them to
\* the StreamReader (feed_data)
Feed ==
    /\ procState = "running"
    /\ Blocked
    /\ \E k \in 1..(Len(prog) - outFed) :
          /\ buffer' = buffer \o SubSeq(prog, outFed + 1, outFed + k)
          /\ outFed' = outFed + k
    /\ UNCHANGED <<apiVars, protocol, cancel, method, multiple, timeout, now, prog, hangs, errLeft,
                   procState, exitCode, reaped, eof, errPipe, errBuf, errPaused,
                   errEof, errOut, errTask, pc, waiting, acc, status, last_status,
                   statistics, code, remainder, pending, terminated, decoded, results,
                   sa, outcome, raisedErr>>

\* The loop reads end of file from the stdout pipe (feed_eof)
StdoutEof ==
    /\ procState = "exited"
    /\ ~eof
    /\ Blocked
    /\ eof' = TRUE
    /\ UNCHANGED <<apiVars, protocol, cancel, method, multiple, timeout, now, prog, hangs, errLeft, outFed,
                   procState, exitCode, reaped, buffer, errPipe, errBuf, errPaused,
                   errEof, errOut, errTask, pc, waiting, acc, status, last_status,
                   statistics, code, remainder, pending, terminated, decoded, results,
                   sa, outcome, raisedErr>>

\* The subprocess writes one unit to stderr; it blocks while the pipe is full
ErrWrite ==
    /\ procState = "running"
    /\ errLeft > 0
    /\ errPipe < PipeCap
    /\ errLeft' = errLeft - 1
    /\ errPipe' = errPipe + 1
    /\ UNCHANGED <<apiVars, protocol, cancel, method, multiple, timeout, now, prog, hangs, outFed,
                   procState, exitCode, reaped, buffer, eof, errBuf, errPaused,
                   errEof, errOut, errTask, pc, waiting, acc, status, last_status,
                   statistics, code, remainder, pending, terminated, decoded, results,
                   sa, outcome, raisedErr>>

\* The loop reads what is in the stderr pipe and feeds it to the StreamReader,
\* which pauses the transport when its buffer exceeds twice the limit
ErrFeed ==
    /\ procState # "none"
    /\ errPipe > 0
    /\ ~errPaused
    /\ errBuf' = errBuf + errPipe
    /\ errPipe' = 0
    /\ errPaused' = (errBuf' > 2 * Limit)
    /\ UNCHANGED <<apiVars, protocol, cancel, method, multiple, timeout, now, prog, hangs, errLeft, outFed,
                   procState, exitCode, reaped, buffer, eof,
                   errEof, errOut, errTask, pc, waiting, acc, status, last_status,
                   statistics, code, remainder, pending, terminated, decoded, results,
                   sa, outcome, raisedErr>>

\* The loop reads end of file from the stderr pipe
ErrEof ==
    /\ procState = "exited"
    /\ errPipe = 0
    /\ ~errPaused
    /\ ~errEof
    /\ errEof' = TRUE
    /\ UNCHANGED <<apiVars, protocol, cancel, method, multiple, timeout, now, prog, hangs, errLeft, outFed,
                   procState, exitCode, reaped, buffer, eof, errPipe, errBuf, errPaused,
                   errOut, errTask, pc, waiting, acc, status, last_status,
                   statistics, code, remainder, pending, terminated, decoded, results,
                   sa, outcome, raisedErr>>

\* The subprocess has written everything and exits
ProcExit ==
    /\ procState = "running"
    /\ ~hangs
    /\ outFed = Len(prog)
    /\ errLeft = 0
    /\ procState' = "exited"
    /\ exitCode' \in {0, 1}
    /\ UNCHANGED <<apiVars, protocol, cancel, method, multiple, timeout, now, prog, hangs, errLeft, outFed,
                   reaped, buffer, eof, errPipe, errBuf, errPaused,
                   errEof, errOut, errTask, pc, waiting, acc, status, last_status,
                   statistics, code, remainder, pending, terminated, decoded, results,
                   sa, outcome, raisedErr>>

\* The child watcher reports the exit (transport._process_exited)
Reap ==
    /\ procState = "exited"
    /\ ~reaped
    /\ reaped' = TRUE
    /\ UNCHANGED <<apiVars, protocol, cancel, method, multiple, timeout, now, prog, hangs, errLeft, outFed,
                   procState, exitCode, buffer, eof, errPipe, errBuf, errPaused,
                   errEof, errOut, errTask, pc, waiting, acc, status, last_status,
                   statistics, code, remainder, pending, terminated, decoded, results,
                   sa, outcome, raisedErr>>

\* Time passes, counted from the start of the subprocess
Tick ==
    /\ timeout # None
    /\ procState # "none"
    /\ now < MaxTime
    /\ outcome = "none"
    /\ now' = now + 1
    /\ UNCHANGED <<apiVars, protocol, cancel, method, multiple, timeout, prog, hangs, errLeft, outFed,
                   procState, exitCode, reaped, buffer, eof, errPipe, errBuf, errPaused,
                   errEof, errOut, errTask, pc, waiting, acc, status, last_status,
                   statistics, code, remainder, pending, terminated, decoded, results,
                   sa, outcome, raisedErr>>

\* A faulty variant of the stderr drain, to compare with ReadAll: _read_all
\* runs only once solutions() awaits it, after the decode loop
ReadAllWhenAwaited ==
    /\ errTask = "running"
    /\ pc = "await_stderr"
    /\ \/ /\ errBuf > 0
          /\ LET k == IF errBuf < Limit THEN errBuf ELSE Limit
             IN  /\ errBuf' = errBuf - k
                 /\ errOut' = errOut + k
                 /\ errPaused' = (errPaused /\ ~(errBuf' <= Limit))
          /\ UNCHANGED errTask
       \/ /\ errBuf = 0
          /\ errEof
          /\ errTask' = "done"
          /\ UNCHANGED <<errBuf, errOut, errPaused>>
    /\ UNCHANGED <<apiVars, protocol, cancel, method, multiple, timeout, now, prog, hangs, errLeft, outFed,
                   procState, exitCode, reaped, buffer, eof, errPipe,
                   errEof, pc, waiting, acc, status, last_status,
                   statistics, code, remainder, pending, terminated, decoded, results,
                   sa, outcome, raisedErr>>

\* _read_all: one turn of stream.read(), which takes at most limit units at a
\* time and ends at end of file
ReadAll ==
    /\ errTask = "running"
    /\ \/ /\ errBuf > 0
          /\ LET k == IF errBuf < Limit THEN errBuf ELSE Limit
             IN  /\ errBuf' = errBuf - k
                 /\ errOut' = errOut + k
                 /\ errPaused' = (errPaused /\ ~(errBuf' <= Limit))
          /\ UNCHANGED errTask
       \/ /\ errBuf = 0
          /\ errEof
          /\ errTask' = "done"
          /\ UNCHANGED <<errBuf, errOut, errPaused>>
    /\ UNCHANGED <<apiVars, protocol, cancel, method, multiple, timeout, now, prog, hangs, errLeft, outFed,
                   procState, exitCode, reaped, buffer, eof, errPipe,
                   errEof, pc, waiting, acc, status, last_status,
                   statistics, code, remainder, pending, terminated, decoded, results,
                   sa, outcome, raisedErr>>

----------------------------------------------------------------------------
(* solutions(), driven by solve_async *)

Frame == [status |-> status, last_status |-> last_status, statistics |-> statistics,
          yields |-> <<>>, exc |-> ""]

\* The frame after a step becomes the state; each Result it yielded is
\* consumed by the loop of solve_async before the generator goes on
Adopt(f) ==
    /\ status' = f.status
    /\ last_status' = f.last_status
    /\ statistics' = f.statistics
    /\ results' = results \o f.yields
    /\ sa' = ConsumeAll(sa, f.yields)

\* An exception leaves solutions() and solve_async
Raise(err) ==
    /\ pc' = "done"
    /\ outcome' = "raised"
    /\ raisedErr' = err

\* A faulty variant of the cancellation, to compare with Cancel: the
\* CancelledError thrown into the decode loop is not handled by solutions()
CancelUnhandled ==
    /\ cancel = "armed"
    /\ cancel' = pc
    /\ \/ /\ pc = "spawning"
          /\ pending' = "CancelledError"
          /\ Raise("UnboundLocalError")
          /\ procState' = "exited"
          /\ exitCode' = IF procState = "running" THEN -9 ELSE exitCode
          /\ reaped' = TRUE
          /\ UNCHANGED <<waiting, acc, errTask>>
       \/ /\ pc = "read" \/ (pc = "wait_loop" /\ waiting)
          /\ Raise("CancelledError")
          /\ waiting' = FALSE
          /\ acc' = <<>>
          /\ UNCHANGED <<procState, exitCode, reaped, pending, errTask>>
       \/ /\ pc \in {"wait_eof", "wait_term"} /\ waiting
          /\ Raise("CancelledError")
          /\ waiting' = FALSE
          /\ UNCHANGED <<procState, exitCode, reaped, pending, acc, errTask>>
       \/ /\ pc = "await_stderr"
          /\ Raise("CancelledError")
          /\ errTask' = IF errTask = "running" THEN "cancelled" ELSE errTask
          /\ UNCHANGED <<procState, exitCode, reaped, pending, waiting, acc>>
    /\ UNCHANGED <<apiVars, protocol, method, multiple, timeout, now, prog, hangs, errLeft, outFed,
                   buffer, eof, errPipe, errBuf, errPaused,
                   errEof, errOut, status, last_status, statistics, code, remainder,
                   terminated, decoded, results, sa>>

\* The caller cancels the task that consumes the session: a CancelledError
\* is thrown into solutions() at the await at which it is suspended.  Inside
\* the try block the last except clause handles it; before proc is bound
\* the event loop kills and reaps the subprocess it was creating, and
\* that clause's proc.terminate() is an UnboundLocalError; in an except
\* clause and after the try statement it leaves solutions() at once (and
\* cancels the stderr task that is awaited)
Cancel ==
    /\ cancel = "armed"
    /\ cancel' = pc
    /\ \/ /\ pc = "spawning"
          /\ pending' = "CancelledError"
          /\ Raise("UnboundLocalError")
          /\ procState' = "exited"
          /\ exitCode' = IF procState = "running" THEN -9 ELSE exitCode
          /\ reaped' = TRUE
          /\ UNCHANGED <<waiting, acc, errTask>>
       \/ /\ pc = "read" \/ (pc = "wait_loop" /\ waiting)
          /\ pending' = "CancelledError"
          /\ pc' = "terminate"
          /\ waiting' = FALSE
          /\ acc' = <<>>
          /\ UNCHANGED <<procState, exitCode, reaped, outcome, raisedErr, errTask>>
       \/ /\ pc \in {"wait_eof", "wait_term"} /\ waiting
          /\ Raise("CancelledError")
          /\ waiting' = FALSE
          /\ UNCHANGED <<procState, exitCode, reaped, pending, acc, errTask>>
       \/ /\ pc = "await_stderr"
          /\ Raise("CancelledError")
          /\ errTask' = IF errTask = "running" THEN "cancelled" ELSE errTask
          /\ UNCHANGED <<procState, exitCode, reaped, pending, waiting, acc>>
    /\ UNCHANGED <<apiVars, protocol, method, multiple, timeout, now, prog, hangs, errLeft, outFed,
                   buffer, eof, errPipe, errBuf, errPaused,
                   errEof, errOut, status, last_status, statistics, code, remainder,
                   terminated, decoded, results, sa>>

\* await _create_process: the subprocess is started and its pipes are connected
Spawn ==
    /\ pc = "start"
    /\ pc' = "spawning"
    /\ procState' = "running"
    /\ UNCHANGED <<apiVars, protocol, cancel, method, multiple, timeout, now, prog, hangs, errLeft, outFed,
                   exitCode, reaped, buffer, eof, errPipe, errBuf, errPaused,
                   errEof, errOut, errTask, waiting, acc, status, last_status,
                   statistics, code, remainder, pending, terminated, decoded, results,
                   sa, outcome, raisedErr>>

\* _create_process returns; ensure_future(_read_all(proc.stderr)); the decode
\* loop is entered
Spawned ==
    /\ pc = "spawning"
    /\ pc' = "decode"
    /\ errTask' = "running"
    /\ UNCHANGED <<apiVars, protocol, cancel, method, multiple, timeout, now, prog, hangs, errLeft, outFed,
                   procState, exitCode, reaped, buffer, eof, errPipe, errBuf, errPaused,
                   errEof, errOut, waiting, acc, status, last_status,
                   statistics, code, remainder, pending, terminated, decoded, results,
                   sa, outcome, raisedErr>>

\* The decoder is about to read (the stream was not at its end at the head of
\* the loop) or is resumed inside readuntil
Reading == pc = "read" \/ (pc = "decode" /\ ~AtEof(buffer, eof))

\* readuntil finds no separator in the buffer and waits for data
ReadWait ==
    /\ pc = "decode"
    /\ ~AtEof(buffer, eof)
    /\ ReadUntil(buffer, eof, Sep).kind = "wait"
    /\ pc' = "read"
    /\ UNCHANGED <<apiVars, protocol, cancel, method, multiple, timeout, now, prog, hangs, errLeft, outFed,
                   procState, exitCode, reaped, buffer, eof, errPipe, errBuf, errPaused,
                   errEof, errOut, errTask, waiting, acc, status, last_status,
                   statistics, code, remainder, pending, terminated, decoded, results,
                   sa, outcome, raisedErr>>

\* while not stream.at_eof(): the stream is at its end, the decoder is
\* exhausted and solutions() goes on to proc.wait()
LoopEnd ==
    /\ pc = "decode"
    /\ AtEof(buffer, eof)
    /\ pc' = "wait_loop"
    /\ UNCHANGED <<apiVars, protocol, cancel, method, multiple, timeout, now, prog, hangs, errLeft, outFed,
                   procState, exitCode, reaped, buffer, eof, errPipe, errBuf, errPaused,
                   errEof, errOut, errTask, waiting, acc, status, last_status,
                   statistics, code, remainder, pending, terminated, decoded, results,
                   sa, outcome, raisedErr>>

\* Faulty variants of the LimitOverrunError handler, to compare with Overrun:
\* one that leaves the units in the stream (no readexactly), and one that
\* takes them from the stream and drops them
OverrunIgnored ==
    /\ Reading
    /\ ReadUntil(buffer, eof, Sep).kind = "overrun"
    /\ pc' = "decode"
    /\ UNCHANGED <<apiVars, protocol, cancel, method, multiple, timeout, now, prog, hangs, errLeft, outFed,
                   procState, exitCode, reaped, buffer, eof, errPipe, errBuf, errPaused,
                   errEof, errOut, errTask, waiting, acc, status, last_status,
                   statistics, code, remainder, pending, terminated, decoded, results,
                   sa, outcome, raisedErr>>

OverrunDiscarded ==
    /\ Reading
    /\ \E r \in {ReadUntil(buffer, eof, Sep)} :
       /\ r.kind = "overrun"
       /\ buffer' = Suffix(buffer, r.n)
    /\ pc' = "decode"
    /\ UNCHANGED <<apiVars, protocol, cancel, method, multiple, timeout, now, prog, hangs, errLeft, outFed,
                   procState, exitCode, reaped, eof, errPipe, errBuf, errPaused,
                   errEof, errOut, errTask, waiting, acc, status, last_status,
                   statistics, code, remainder, pending, terminated, decoded, results,
                   sa, outcome, raisedErr>>

\* readuntil raises LimitOverrunError: the units it names are taken from the
\* stream (readexactly) and kept in the accumulator
Overrun ==
    /\ Reading
    /\ \E r \in {ReadUntil(buffer, eof, Sep)} :
       /\ r.kind = "overrun"
       /\ acc' = acc \o Prefix(buffer, r.n)
       /\ buffer' = Suffix(buffer, r.n)
    /\ pc' = "decode"
    /\ UNCHANGED <<apiVars, protocol, cancel, method, multiple, timeout, now, prog, hangs, errLeft, outFed,
                   procState, exitCode, reaped, eof, errPipe, errBuf, errPaused,
                   errEof, errOut, errTask, waiting, status, last_status,
                   statistics, code, remainder, pending, terminated, decoded, results,
                   sa, outcome, raisedErr>>

\* readuntil raises IncompleteReadError: the decoder (and its accumulator) is
\* gone, solutions() handles the error: it first awaits proc.wait()
Incomplete ==
    /\ Reading
    /\ ReadUntil(buffer, eof, Sep).kind = "incomplete"
    /\ remainder' = buffer
    /\ buffer' = <<>>
    /\ acc' = <<>>
    /\ pc' = "wait_eof"
    /\ UNCHANGED <<apiVars, protocol, cancel, method, multiple, timeout, now, prog, hangs, errLeft, outFed,
                   procState, exitCode, reaped, eof, errPipe, errBuf, errPaused,
                   errEof, errOut, errTask, waiting, status, last_status,
                   statistics, code, pending, terminated, decoded, results,
                   sa, outcome, raisedErr>>

\* A faulty variant of the line decoder, to compare with JsonLine: after a
\* warning the line stays in the decoder's buffer
JsonLineKeepsWarning ==
    /\ Reading
    /\ protocol = "structured"
    /\ \E r \in {ReadUntil(buffer, eof, JSONLINE)} :
       /\ r.kind = "data"
       /\ \E chunk \in {acc \o Prefix(buffer, r.n)} :
          \E line \in {Strip(chunk)} :
          \E d \in {DecodeLine(line)} :
             /\ buffer' = Suffix(buffer, r.n)
             /\ acc' = IF line # <<>> /\ d.kind = "warn" THEN line ELSE <<>>
             /\ decoded' = Append(decoded, chunk)
             /\ IF line = <<>> \/ d.kind = "warn"
                THEN /\ pc' = "decode"
                     /\ UNCHANGED <<pending, status, last_status, statistics, results, sa>>
                ELSE IF d.kind = "raise"
                THEN /\ pc' = "terminate"
                     /\ pending' = d.err
                     /\ UNCHANGED <<status, last_status, statistics, results, sa>>
                ELSE \E f \in {HandleObj(Frame, d.obj, TRUE)} :
                        /\ Adopt(f)
                        /\ IF f.exc # ""
                           THEN pc' = "terminate" /\ pending' = f.exc
                           ELSE /\ pc' = IF cancel = "closing" /\ f.yields # <<>>
                                         THEN "yield" ELSE "decode"
                                /\ UNCHANGED pending
    /\ UNCHANGED <<apiVars, protocol, cancel, method, multiple, timeout, now, prog, hangs, errLeft, outFed,
                   procState, exitCode, reaped, eof, errPipe, errBuf, errPaused,
                   errEof, errOut, errTask, waiting, code, remainder, terminated,
                   outcome, raisedErr>>

\* decode_async_json_stream reads one line; the loop of solutions() handles
\* the object it yields
JsonLine ==
    /\ Reading
    /\ protocol = "structured"
    /\ \E r \in {ReadUntil(buffer, eof, JSONLINE)} :
       /\ r.kind = "data"
       /\ \E chunk \in {acc \o Prefix(buffer, r.n)} :
          \E line \in {Strip(chunk)} :
          \E d \in {DecodeLine(line)} :
             /\ buffer' = Suffix(buffer, r.n)
             /\ acc' = <<>>
             /\ decoded' = Append(decoded, chunk)
             /\ IF line = <<>> \/ d.kind = "warn"
                THEN /\ pc' = "decode"
                     /\ UNCHANGED <<pending, status, last_status, statistics, results, sa>>
                ELSE IF d.kind = "raise"
                THEN /\ pc' = "terminate"
                     /\ pending' = d.err
                     /\ UNCHANGED <<status, last_status, statistics, results, sa>>
                ELSE \E f \in {HandleObj(Frame, d.obj, TRUE)} :
                        /\ Adopt(f)
                        /\ IF f.exc # ""
                           THEN pc' = "terminate" /\ pending' = f.exc
                           ELSE /\ pc' = IF cancel = "closing" /\ f.yields # <<>>
                                         THEN "yield" ELSE "decode"
                                /\ UNCHANGED pending
    /\ UNCHANGED <<apiVars, protocol, cancel, method, multiple, timeout, now, prog, hangs, errLeft, outFed,
                   procState, exitCode, reaped, eof, errPipe, errBuf, errPaused,
                   errEof, errOut, errTask, waiting, code, remainder, terminated,
                   outcome, raisedErr>>

\* _seperate_solutions yields one raw solution; the loop of solutions()
\* parses and yields it
LegacyChunk ==
    /\ Reading
    /\ protocol = "legacy"
    /\ \E r \in {ReadUntil(buffer, eof, SEPARATOR)} :
       /\ r.kind = "data"
       /\ \E raw_sol \in {acc \o Prefix(buffer, r.n)} :
          \E p \in {parse_solution(raw_sol)} :
          \E result \in {Result("SATISFIED", p.solution, p.statistics)} :
             /\ buffer' = Suffix(buffer, r.n)
             /\ acc' = <<>>
             /\ decoded' = Append(decoded, raw_sol)
             /\ status' = "SATISFIED"
             /\ statistics' = p.statistics
             /\ results' = Append(results, result)
             /\ sa' = Consume(sa, result)
    /\ pc' = IF cancel = "closing" THEN "yield" ELSE "decode"
    /\ UNCHANGED <<apiVars, protocol, cancel, method, multiple, timeout, now, prog, hangs, errLeft, outFed,
                   procState, exitCode, reaped, eof, errPipe, errBuf, errPaused,
                   errEof, errOut, errTask, waiting, last_status, code, remainder,
                   pending, terminated, outcome, raisedErr>>

\* proc.wait() returns at once when the return code is known, and otherwise
\* when the transport has finished
WaitReady == IF waiting THEN Finished ELSE reaped

\* proc.wait() finds no return code yet and registers an exit waiter
WaitRegister ==
    /\ pc \in WaitPcs
    /\ ~waiting
    /\ ~reaped
    /\ waiting' = TRUE
    /\ UNCHANGED <<apiVars, protocol, cancel, method, multiple, timeout, now, prog, hangs, errLeft, outFed,
                   procState, exitCode, reaped, buffer, eof, errPipe, errBuf, errPaused,
                   errEof, errOut, errTask, pc, acc, status, last_status,
                   statistics, code, remainder, pending, terminated, decoded, results,
                   sa, outcome, raisedErr>>

\* code = await proc.wait() after the decode loop
WaitAfterLoop ==
    /\ pc = "wait_loop"
    /\ WaitReady
    /\ waiting' = FALSE
    /\ code' = exitCode
    /\ pc' = "final"
    /\ UNCHANGED <<apiVars, protocol, cancel, method, multiple, timeout, now, prog, hangs, errLeft, outFed,
                   procState, exitCode, reaped, buffer, eof, errPipe, errBuf, errPaused,
                   errEof, errOut, errTask, acc, status, last_status,
                   statistics, remainder, pending, terminated, decoded, results,
                   sa, outcome, raisedErr>>

\* The frame after the remainder loop of the IncompleteReadError handler
RemainderFrame ==
    IF protocol = "structured"
    THEN DecodeRemainder(Split(remainder, JSONLINE), Frame)
    ELSE LegacyRemainder(SelectSeq(Split(remainder, SEPARATOR), LAMBDA x : x # <<>>), Frame)

\* except IncompleteReadError: code = await proc.wait(), then the remainder
\* is decoded and its Results are yielded; an exception raised here leaves
\* solutions(), and so does a caller that stops at one of the Results
WaitAtEof ==
    /\ pc = "wait_eof"
    /\ WaitReady
    /\ waiting' = FALSE
    /\ code' = exitCode
    /\ decoded' = Append(decoded, remainder)
    /\ \E f \in {RemainderFrame} :
       \/ /\ Adopt(f)
          /\ IF f.exc # ""
             THEN Raise(f.exc)
             ELSE pc' = "final" /\ UNCHANGED <<outcome, raisedErr>>
       \/ /\ cancel = "closing"
          /\ \E j \in 1..Len(f.yields) :
                /\ results' = results \o Prefix(f.yields, j)
                /\ sa' = ConsumeAll(sa, Prefix(f.yields, j))
                /\ status' = f.yields[j].status
                /\ statistics' = f.yields[j].statistics
          /\ pc' = "done"
          /\ outcome' = "closed"
          /\ UNCHANGED <<last_status, raisedErr>>
    /\ UNCHANGED <<apiVars, protocol, cancel, method, multiple, timeout, now, prog, hangs, errLeft, outFed,
                   procState, exitCode, reaped, buffer, eof, errPipe, errBuf, errPaused,
                   errEof, errOut, errTask, acc, remainder, pending, terminated>>

\* except (CancelledError, MiniZincError, Exception): proc.terminate(), which
\* raises ProcessLookupError once the transport has finished
Terminate ==
    /\ pc = "terminate"
    /\ IF Finished
       THEN /\ Raise("ProcessLookupError")
            /\ UNCHANGED <<terminated, procState, exitCode>>
       ELSE /\ terminated' = TRUE
            /\ pc' = "wait_term"
            /\ IF procState = "running"
               THEN procState' = "exited" /\ exitCode' = -15
               ELSE UNCHANGED <<procState, exitCode>>
            /\ UNCHANGED <<outcome, raisedErr>>
    /\ UNCHANGED <<apiVars, protocol, cancel, method, multiple, timeout, now, prog, hangs, errLeft, outFed,
                   reaped, buffer, eof, errPipe, errBuf, errPaused,
                   errEof, errOut, errTask, waiting, acc, status, last_status,
                   statistics, code, remainder, pending, decoded, results, sa>>

\* _ = await proc.wait(), then raise
WaitAfterTerminate ==
    /\ pc = "wait_term"
    /\ WaitReady
    /\ waiting' = FALSE
    /\ Raise(pending)
    /\ UNCHANGED <<apiVars, protocol, cancel, method, multiple, timeout, now, prog, hangs, errLeft, outFed,
                   procState, exitCode, reaped, buffer, eof, errPipe, errBuf, errPaused,
                   errEof, errOut, errTask, acc, status, last_status,
                   statistics, code, remainder, pending, terminated, decoded, results, sa>>

\* The last Result of the structured protocol
FinalYield ==
    /\ pc = "final"
    /\ pc' = IF /\ cancel = "closing" /\ protocol = "structured"
                /\ (status # last_status \/ statistics # EmptyDict)
             THEN "yield_final" ELSE "await_stderr"
    /\ IF protocol = "structured" /\ (status # last_status \/ statistics # EmptyDict)
       THEN \E f \in {[Frame EXCEPT !.yields = <<Result(status, None, statistics)>>]} :
               Adopt(f)
       ELSE UNCHANGED <<status, last_status, statistics, results, sa>>
    /\ UNCHANGED <<apiVars, protocol, cancel, method, multiple, timeout, now, prog, hangs, errLeft, outFed,
                   procState, exitCode, reaped, buffer, eof, errPipe, errBuf, errPaused,
                   errEof, errOut, errTask, waiting, acc, code, remainder, pending,
                   terminated, decoded, outcome, raisedErr>>

\* stderr = await read_stderr; raise parse_error(stderr) if required;
\* otherwise solutions() is exhausted and solve_async returns its Result
AwaitStderr ==
    /\ pc = "await_stderr"
    /\ errTask = "done"
    /\ IF code # 0 \/ status = "ERROR"
       THEN Raise("MiniZincError")
       ELSE pc' = "done" /\ outcome' = "returned" /\ UNCHANGED raisedErr
    /\ UNCHANGED <<apiVars, protocol, cancel, method, multiple, timeout, now, prog, hangs, errLeft, outFed,
                   procState, exitCode, reaped, buffer, eof, errPipe, errBuf, errPaused,
                   errEof, errOut, errTask, waiting, acc, status, last_status,
                   statistics, code, remainder, pending, terminated, decoded, results, sa>>

----------------------------------------------------------------------------

Next ==
    \/ Spawn \/ Spawned \/ LoopEnd \/ ReadWait \/ Overrun \/ Incomplete \/ JsonLine \/ LegacyChunk
    \/ WaitRegister \/ WaitAfterLoop \/ WaitAtEof \/ Terminate \/ WaitAfterTerminate
    \/ FinalYield \/ AwaitStderr
    \/ Feed \/ StdoutEof \/ ErrWrite \/ ErrFeed \/ ErrEof \/ ProcExit \/ Reap \/ ReadAll
    \/ Tick \/ Cancel

Spec == Init /\ [][Next]_vars

\* Sessions whose caller iterates solutions() itself and may stop after any
\* Result
InitClose ==
    /\ \/ protocol = "structured" /\ prog \in StructuredProgs(1) /\ method = "MINIMIZE"
       \/ protocol = "legacy" /\ prog \in LegacyProgs(1) /\ method = "SATISFY"
    /\ multiple = TRUE
    /\ timeout = None
    /\ hangs \in BOOLEAN
    /\ errLeft = 0
    /\ cancel = "closing"

\* await _create_process raises: no subprocess is started and proc stays
\* unbound.  The last except clause handles the exception, and its
\* proc.terminate() is an UnboundLocalError
SpawnFails ==
    /\ pc = "start"
    /\ \E err \in {"FileNotFoundError", "PermissionError"} : pending' = err
    /\ Raise("UnboundLocalError")
    /\ UNCHANGED <<apiVars, protocol, cancel, method, multiple, timeout, now, prog, hangs, errLeft, outFed,
                   procState, exitCode, reaped, buffer, eof, errPipe, errBuf, errPaused,
                   errEof, errOut, errTask, waiting, acc, status, last_status,
                   statistics, code, remainder, terminated, decoded, results, sa>>

\* The caller asks for the next Result: the generator goes on after its yield
Iterate ==
    /\ pc \in {"yield", "yield_final"}
    /\ pc' = IF pc = "yield" THEN "decode" ELSE "await_stderr"
    /\ UNCHANGED <<apiVars, protocol, cancel, method, multiple, timeout, now, prog, hangs, errLeft, outFed,
                   procState, exitCode, reaped, buffer, eof, errPipe, errBuf, errPaused,
                   errEof, errOut, errTask, waiting, acc, status, last_status,
                   statistics, code, remainder, pending, terminated, decoded, results, sa,
                   outcome, raisedErr>>

\* The caller stops iterating and the generator is closed: GeneratorExit is
\* raised at the yield.  It is no Exception, so no except clause of
\* solutions() handles it, and the with statement of the files is left
Close ==
    /\ pc \in {"yield", "yield_final"}
    /\ pc' = "done"
    /\ outcome' = "closed"
    /\ UNCHANGED <<apiVars, protocol, cancel, method, multiple, timeout, now, prog, hangs, errLeft, outFed,
                   procState, exitCode, reaped, buffer, eof, errPipe, errBuf, errPaused,
                   errEof, errOut, errTask, waiting, acc, status, last_status,
                   statistics, code, remainder, pending, terminated, decoded, results, sa,
                   raisedErr>>

\* The sessions of a caller that may stop early, together with the sessions
\* of solve_async, and a subprocess that may fail to start
InitCaller ==
    /\ InitDecode(MaxMsgs - 1) \/ InitProcess \/ InitCancel \/ InitClose
    /\ InitSession /\ call = NoCall /\ NoObjects

NextCaller == Next \/ SpawnFails \/ Iterate \/ Close

CallerSpec == InitCaller /\ [][NextCaller]_vars

\* Whenever a step is possible, a step is taken: the subprocess goes on until
\* it has written everything and exits (unless it hangs), the event loop runs
\* its callbacks, and a task that can run is run.  No step can be undone, so
\* this lets no enabled step wait forever.
Fairness == WF_vars(Next)

FairSpec == InitFair /\ [][Next]_vars /\ Fairness

----------------------------------------------------------------------------
(* Properties of a session *)

Done == pc = "done"

\* C1: provided the subprocess does not hang (it writes its output, closes its
\* pipes and exits), every call of solve_async ends, and it ends in exactly
\* one way: it has returned its Result and raised nothing, or it has raised
\* one exception and returned nothing.
C1_Terminates ==
    (~hangs) ~> (/\ Done
                 /\ outcome \in {"returned", "raised"}
                 /\ (outcome = "raised") <=> (raisedErr # ""))

\* A session with output on both pipes that returned after yielding a Result
C1_Witness ==
    /\ Done /\ ~hangs
    /\ outcome = "returned" /\ raisedErr = ""
    /\ results # <<>>
    /\ errOut > PipeCap

\* C2: when the subprocess has exited of its own accord with a return code
\* other than zero, the session (which its caller did not cancel) ends by
\* raising a MiniZincError, whatever was decoded before.
C2_NonZeroExitRaisesMiniZincError ==
    (Done /\ cancel = "never" /\ procState = "exited" /\ exitCode # 0 /\ ~terminated)
        => (outcome = "raised" /\ raisedErr = "MiniZincError")

\* The line a decoder was handed as decoded[i] is a status message naming st
StatusLine(i, st) ==
    LET o == Loads(Strip(decoded[i]))
    IN  o # None /\ o[1].type = "status" /\ o[1].status = st

\* C3: structured protocol: in a session that returns (the return code is
\* zero), once a status message has named a status other than UNKNOWN, the
\* resolved status is not UNKNOWN at the end.
C3_NoRegressToUnknown ==
    (/\ Done /\ outcome = "returned" /\ protocol = "structured"
     /\ \E i \in 1..Len(decoded) : \E st \in StatusNames \ {"UNKNOWN"} : StatusLine(i, st))
        => status # "UNKNOWN"

\* The stream holds no banner and no status message
NoTerminalMarker(stream) ==
    \A i \in 1..Len(stream) :
        /\ stream[i] \notin Banners
        /\ ObjOf(stream[i]).type # "status"

\* C4: in a session whose stdout holds no terminal status marker and no end
\* banner, no Result that follows a Result carrying a solution has the status
\* UNKNOWN, and neither has the Result of solve_async.
C4_NoDowngradeAfterSolution ==
    (Done /\ outcome = "returned" /\ NoTerminalMarker(prog))
        => \A i \in 1..Len(results) :
              results[i].solution # None
                  => /\ sa.status # "UNKNOWN"
                     /\ \A j \in i..Len(results) : results[j].status # "UNKNOWN"

\* The legacy branch of solutions() on a stream that was delivered whole and
\* closed before the decoder first looks at it
RECURSIVE OneBlob(_, _, _)
OneBlob(buf, solution, f) ==
    IF AtEof(buf, TRUE) THEN f
    ELSE LET r == ReadUntil(buf, TRUE, SEPARATOR)
         IN  CASE r.kind = "data" ->
                    LET p == parse_solution(solution \o Prefix(buf, r.n))
                    IN  OneBlob(Suffix(buf, r.n), <<>>,
                            [f EXCEPT !.status = "SATISFIED",
                                      !.statistics = p.statistics,
                                      !.yields = Append(@, Result("SATISFIED", p.solution,
                                                                  p.statistics))])
               [] r.kind = "overrun" ->
                    OneBlob(Suffix(buf, r.n), solution \o Prefix(buf, r.n), f)
               [] OTHER ->
                    LegacyRemainder(SelectSeq(Split(buf, SEPARATOR), LAMBDA x : x # <<>>), f)

InitialFrame == [status |-> "UNKNOWN", last_status |-> "UNKNOWN", statistics |-> EmptyDict,
                 yields |-> <<>>, exc |-> ""]

\* C5: legacy protocol: however the pipe delivered the stream, the Results of
\* the session are those of the stream delivered as one blob.
C5_ChunkingInvariant ==
    (Done /\ protocol = "legacy") => results = OneBlob(prog, <<>>, InitialFrame).yields

\* C6: in a session that ended without an exception raised in the decode
\* loop, the chunks handed to the decoders are, in order and without gap or
\* repetition, the units the subprocess wrote to stdout.
C6_EveryUnitDecodedOnce ==
    (Done /\ pending = "") => Flatten(decoded) = Prefix(prog, outFed)

\* C7: structured protocol: every line handed to json.loads is a whole line
\* of the stream, the i-th one being the i-th line the subprocess wrote,
\* whatever its length and however many reads delivered it.
C7_LongLineOneMessage ==
    protocol = "structured" =>
        \A i \in 1..Len(decoded) :
            (decoded[i] # <<>> /\ decoded[i][Len(decoded[i])] = NL)
                => /\ i <= Len(Split(prog, JSONLINE))
                   /\ decoded[i] = Append(Split(prog, JSONLINE)[i], NL)

\* A line longer than the limit was decoded as a message and the session
\* returned
C7_Witness ==
    /\ Done /\ outcome = "returned" /\ protocol = "structured"
    /\ \E i \in 1..Len(decoded) :
          /\ Len(decoded[i]) > Limit + 1
          /\ decoded[i][Len(decoded[i])] = NL
          /\ DecodeLine(Strip(decoded[i])).kind = "yield"
          /\ decoded[i] = Append(Split(prog, JSONLINE)[i], NL)

\* C8: a subprocess that has output for stderr, of any amount, writes all of
\* it, the decode loop reaches the end of stdout and the session ends.
C8_StderrNeverBlocks ==
    (errLeft > 0 /\ ~hangs) ~> (Done /\ errLeft = 0 /\ errPipe = 0 /\ eof)

\* A session that returned after the subprocess wrote more to stderr than the
\* pipe and the StreamReader hold before they make the writer wait
C8_Witness ==
    /\ Done /\ outcome = "returned"
    /\ errOut > 2 * Limit + PipeCap
    /\ errTask = "done"

\* C9: when the caller gave a timeout and the subprocess is still running,
\* its stdout open, after the deadline and the grace period, the session ends
\* and the subprocess runs no more.
C9_DeadlineEndsSession ==
    (timeout # None /\ now > timeout[1] + Grace /\ procState = "running" /\ ~eof)
        ~> (Done /\ procState = "exited")

\* C10: when the caller gave a timeout and, at the deadline, a Result with a
\* solution has been yielded and the subprocess is still running, the session
\* ends by raising the Timeout error.
C10_TimeoutSalvage ==
    (/\ timeout # None /\ now >= timeout[1] /\ procState = "running"
     /\ \E i \in 1..Len(results) : results[i].solution # None)
        ~> (outcome = "raised" /\ raisedErr = "Timeout")

\* C11: when the caller cancels the task while the decode loop is suspended
\* in its read of stdout, the cancellation reaches the caller only after
\* terminate was sent to the subprocess and its exit was awaited: the
\* subprocess runs no more and its return code is known.
C11_CancelTerminatesFirst ==
    (cancel = "read" /\ outcome = "raised" /\ raisedErr = "CancelledError")
        => (terminated /\ procState = "exited" /\ reaped)

\* A cancellation in the decode loop put an end to a subprocess that was
\* running, and then reached the caller
C11_Witness ==
    /\ Done /\ cancel = "read"
    /\ raisedErr = "CancelledError"
    /\ terminated /\ exitCode = -15

\* C12: structured protocol: when the streaming decoder met an error message
\* while a status or statistics decoded before it had not been delivered yet,
\* the session has, at its end, yielded a last Result without solution that
\* carries that status and those statistics.
C12_ErrorStillSalvages ==
    (/\ Done /\ protocol = "structured" /\ cancel = "never"
     /\ pending = "MiniZincError"
     /\ (status # last_status \/ statistics # EmptyDict))
        => (/\ results # <<>>
            /\ results[Len(results)] = Result(status, None, statistics))

\* The streaming loop of solutions() over the lines decode_async_json_stream
\* reads, in order, until one raises
RECURSIVE DecodeStream(_, _)
DecodeStream(lines, f) ==
    IF lines = <<>> \/ f.exc # "" THEN f
    ELSE LET line == Strip(Head(lines))
         IN  IF line = <<>> THEN DecodeStream(Tail(lines), f)
             ELSE LET d == DecodeLine(line)
                  IN  CASE d.kind = "raise" -> [f EXCEPT !.exc = d.err]
                        [] d.kind = "warn" -> DecodeStream(Tail(lines), f)
                        [] OTHER -> DecodeStream(Tail(lines), HandleObj(f, d.obj, TRUE))

\* The part of the stream after its last line break fits the limit of the
\* StreamReader
FitsLimit(stream) ==
    LET pieces == Split(stream, JSONLINE)
    IN  Len(pieces[Len(pieces)]) <= Limit

\* The structured branch of solutions() on a stream that was delivered whole
\* and closed before the decoder first looks at it, and whose last part fits
\* the limit: the streaming loop over the complete lines, the remainder loop
\* over what follows the last line break, the last Result
StructuredBlob(stream) ==
    LET pieces == Split(stream, JSONLINE)
        n  == Len(pieces)
        f1 == DecodeStream(Prefix(pieces, n - 1), InitialFrame)
        f2 == DecodeRemainder(<<pieces[n]>>, f1)
    IN  IF f2.exc = "" /\ (f2.status # f2.last_status \/ f2.statistics # EmptyDict)
        THEN [f2 EXCEPT !.yields = Append(@, Result(f2.status, None, f2.statistics))]
        ELSE f2

\* The line is a warning message
IsWarning(line) == DecodeLine(Strip(line)).kind = "warn"

\* The stream without its warning lines (and their line breaks)
WithoutWarnings(stream) ==
    LET pieces == Split(stream, JSONLINE)
        n    == Len(pieces)
        kept == SelectSeq(Prefix(pieces, n - 1), LAMBDA l : ~IsWarning(l))
    IN  Flatten([i \in 1..Len(kept) |-> Append(kept[i], NL)])
        \o (IF IsWarning(pieces[n]) THEN <<>> ELSE pieces[n])

SolutionsOf(stream) ==
    LET sols == SelectSeq(stream, LAMBDA u : u \in LegacySols)
    IN  [i \in 1..Len(sols) |-> IF sols[i] = "{x:1}" THEN 1 ELSE 2]

\* The stream is one or more solutions, each followed by the separator line,
\* and then the line of the search-complete marker
CompleteSearch(stream) ==
    \E p \in LegacySolutions(MaxMsgs) \ {<<>>} : stream = p \o <<"==========", NL>>

\* The Results that carry a solution, in order
WithSolution(rs) == SelectSeq(rs, LAMBDA r : r.solution # None)

\* C14: legacy protocol: for a stream of k >= 1 solutions, each followed by
\* the separator, then the search-complete marker, and return code 0, the
\* session returns; the Results that carry a solution are k, have status
\* SATISFIED and carry the solutions of the stream in order; the status
\* solve_async returns is ALL_SOLUTIONS for the method SATISFY and
\* OPTIMAL_SOLUTION for an optimisation method.
C14_LegacyCompleteSearch ==
    (/\ Done /\ protocol = "legacy" /\ cancel = "never"
     /\ exitCode = 0
     /\ CompleteSearch(prog))
        => \E sols \in {SolutionsOf(prog)} : \E rs \in {WithSolution(results)} :
              /\ outcome = "returned"
              /\ Len(rs) = Len(sols)
              /\ \A i \in 1..Len(rs) :
                    rs[i].status = "SATISFIED" /\ rs[i].solution[1].id = sols[i]
              /\ sa.status = IF method = "SATISFY" THEN "ALL_SOLUTIONS"
                                                   ELSE "OPTIMAL_SOLUTION"

\* An optimisation session returned OPTIMAL_SOLUTION after two different
\* solutions and the search-complete marker
C14_Witness ==
    /\ Done /\ outcome = "returned" /\ protocol = "legacy" /\ method = "MINIMIZE"
    /\ exitCode = 0 /\ CompleteSearch(prog)
    /\ SolutionsOf(prog) = <<1, 2>>
    /\ Len(WithSolution(results)) = 2
    /\ sa.status = "OPTIMAL_SOLUTION"

\* The end banners of a search that found no solution, and the status each
\* stands for
NoSolutionBanners == {"=====UNKNOWN=====", "=====UNSATISFIABLE=====",
                      "=====UNSATorUNBOUNDED=====", "=====UNBOUNDED====="}

BannerStatus(b) ==
    CASE b = "=====UNKNOWN=====" -> "UNKNOWN"
      [] b = "=====UNSATISFIABLE=====" -> "UNSATISFIABLE"
      [] OTHER -> "UNBOUNDED"

\* The stream is the line of the banner b, followed by nothing or by a
\* statistics line
OnlyBanner(stream, b) ==
    stream = <<b, NL>> \/ stream = <<b, NL, STAT, NL>>

C16_MinimalSolutionMessage ==
    (/\ Done /\ protocol = "structured" /\ cancel = "never"
     /\ exitCode = 0
     /\ prog = Line("{solution:_objective=5", 0, "nl")
                 \o Line("{status:OPTIMAL_SOLUTION", 0, "nl"))
        => /\ outcome = "returned"
           /\ Len(results) = 2
           /\ results[1].solution # None
           /\ results[1].solution[1].objective = Some(5)
           /\ results[2].status = "OPTIMAL_SOLUTION"
           /\ results[2].solution = None

\* C17: in a session that returned after yielding Results, the last Result
\* yielded holds no solution and carries the status that solve_async
\* returns.  Stated for the structured protocol, the one for which
\* solutions() has a last Result of its own.
C17_LastResultHasNoSolution ==
    (/\ Done /\ outcome = "returned" /\ cancel = "never"
     /\ protocol = "structured" /\ results # <<>>)
        => (/\ results[Len(results)].solution = None
            /\ results[Len(results)].status = sa.status)

\* The keys of the statistics of a Result
StatKeys == {"nodes", "time", "_checker"}

\* The chunk handed to a decoder is a message that sets the statistics key k
SetsKey(chunk, k) ==
    LET o == Loads(Strip(chunk))
    IN  /\ o # None
        /\ CASE k = "nodes" -> o[1].type = "statistics"
              [] k = "time" -> o[1].type \in {"solution", "time"} /\ o[1].hasTime
              [] OTHER -> o[1].type = "checker"

\* C18: structured protocol: a statistics key is in the statistics of no
\* more Results than messages that set it were decoded (no value is carried
\* over from one Result to the next), and right after the streaming loop
\* yielded the Result of a solution message the statistics buffer is empty.
C18_StatisticsDeliveredOnce ==
    protocol = "structured" =>
        /\ \A k \in StatKeys :
              Cardinality({i \in 1..Len(results) : k \in DOMAIN results[i].statistics})
                  <= Cardinality({i \in 1..Len(decoded) : SetsKey(decoded[i], k)})
        /\ (/\ pc = "decode" /\ decoded # <<>>
            /\ SetsKey(decoded[Len(decoded)], "time")
            /\ Loads(Strip(decoded[Len(decoded)]))[1].type = "solution")
               => statistics = EmptyDict

\* A session returned after two Results: the first carries the time of its
\* solution, the last one the statistics decoded after it and not that time
C18_Witness ==
    /\ Done /\ outcome = "returned" /\ protocol = "structured"
    /\ Len(results) = 2
    /\ results[1].solution # None
    /\ "time" \in DOMAIN results[1].statistics
    /\ DOMAIN results[2].statistics = {"nodes"}

\* The solutions of the solution messages of a stream, in the order in which
\* the stream holds them
StreamSolutions(stream) ==
    IF protocol = "legacy" THEN SolutionsOf(stream)
    ELSE LET msgs == SelectSeq(stream, LAMBDA u : ObjOf(u).type = "solution")
         IN  [i \in 1..Len(msgs) |-> ObjOf(msgs[i]).sol]

\* C19: in a multi-solution session that returned, the list solve_async
\* returns holds the solutions of the Results that carry one, each once and
\* in the order of the Results, which is the order of their messages in the
\* stdout stream.
C19_ListInStreamOrder ==
    (Done /\ outcome = "returned" /\ multiple /\ cancel = "never")
        => \E rs \in {WithSolution(results)} :
              /\ sa.solution = PyList([i \in 1..Len(rs) |-> rs[i].solution[1]])
              /\ [i \in 1..Len(rs) |-> rs[i].solution[1].id]
                     = Prefix(StreamSolutions(prog), Len(rs))

\* A multi-solution session returned a list of two different solutions
C19_Witness ==
    /\ Done /\ outcome = "returned" /\ multiple
    /\ sa.solution.kind = "list"
    /\ Len(sa.solution.val) = 2
    /\ sa.solution.val[1].id = 1 /\ sa.solution.val[2].id = 2
    /\ StreamSolutions(prog) = <<1, 2>>

\* C20: the solution of the Result solve_async returns is a list exactly in
\* a multi-solution session; in a single-solution session it is the solution
\* of the last Result that carried one, and None when no Result carried one.
C20_SolutionShape ==
    (Done /\ outcome = "returned" /\ cancel = "never")
        => \E rs \in {WithSolution(results)} :
              /\ (sa.solution.kind = "list") <=> multiple
              /\ ~multiple =>
                    sa.solution = IF rs = <<>> THEN PyNone
                                  ELSE PyOne(rs[Len(rs)].solution[1])

\* A single-solution session returned the second of two different solutions
C20_Witness ==
    /\ Done /\ outcome = "returned" /\ ~multiple
    /\ Len(WithSolution(results)) = 2
    /\ WithSolution(results)[1].solution[1].id = 1
    /\ sa.solution.kind = "one"
    /\ sa.solution.val[1].id = 2

\* C21: whatever the subprocess writes, the status of a session and of each
\* Result it yields is one its method allows: never ALL_SOLUTIONS for an
\* optimisation problem, never OPTIMAL_SOLUTION nor UNBOUNDED for a
\* satisfaction problem.
C21_StatusFitsMethod ==
    LET allowed == IF method = "SATISFY"
                   THEN {"UNKNOWN", "UNSATISFIABLE", "SATISFIED", "ALL_SOLUTIONS",
                         "ERROR"}
                   ELSE {"UNKNOWN", "UNBOUNDED", "UNSATISFIABLE", "SATISFIED",
                         "OPTIMAL_SOLUTION", "ERROR"}
    IN  /\ status \in allowed
        /\ \A i \in 1..Len(results) : results[i].status \in allowed

----------------------------------------------------------------------------
(* Library functions called on their own: call holds the function, its     *)
(* arguments and, once it has returned or raised, its result.              *)

\* keyword.iskeyword, for the names the models here declare
iskeyword(k) == k \in {"in", "return"}

\* analyse: the rename table of an output dictionary with these keys, in
\* their order
RECURSIVE FieldRenames(_)
FieldRenames(keys) ==
    IF keys = <<>> THEN <<>>
    ELSE (IF Head(keys) \in {"_output_item", "_checker"} \/ ~iskeyword(Head(keys))
          THEN <<>>
          ELSE << <<Head(keys), "mzn_" \o Head(keys)>> >>)
         \o FieldRenames(Tail(keys))

\* _parse_stream_obj: for before, after in self._field_renames:
\*     tmp[after] = tmp.pop(before)
\* exc is the exception that ended the loop, val the dictionary as it is then
RECURSIVE ApplyRenames(_, _)
ApplyRenames(renames, tmp) ==
    IF renames = <<>> THEN [exc |-> "", val |-> tmp]
    ELSE LET before == Head(renames)[1]
             after  == Head(renames)[2]
         IN  IF before \notin DOMAIN tmp
             THEN [exc |-> "KeyError", val |-> tmp]
             ELSE ApplyRenames(Tail(renames), Put(Pop(tmp, before), after, tmp[before]))

\* A rename table and a raw field map: the output variables of a model, in
\* the order of its interface, and their values in a solution message
InitRename ==
    LET names == {"in", "return", "x"}
        orders == {<<>>} \cup {<<a>> : a \in names}
                  \cup {p \in names \X names : p[1] # p[2]}
                  \cup {<<"in", "return", "x">>, <<"x", "return", "in">>}
    IN  \E keys \in orders : \E tmp \in [{keys[i] : i \in 1..Len(keys)} -> {1, 2}] :
            call = [fn |-> "rename",
                    args |-> [renames |-> FieldRenames(keys), tmp |-> tmp],
                    ret |-> None]

\* The table is applied to the dictionary, and once more to the same
\* dictionary
RenameTwice ==
    /\ call.fn = "rename" /\ call.ret = None
    /\ \E once \in {ApplyRenames(call.args.renames, call.args.tmp)} :
          call' = [call EXCEPT !.ret = Some([once |-> once,
                                            twice |-> ApplyRenames(call.args.renames,
                                                                   once.val)])]
    /\ UNCHANGED <<sessionVars, objs, types, blocked, last, ncalls>>

\* No session is part of a call of a library function
SessionIdle ==
    /\ protocol = "legacy" /\ prog = <<>> /\ method = "SATISFY" /\ multiple = FALSE
    /\ timeout = None /\ hangs = FALSE /\ errLeft = 0 /\ cancel = "never"
    /\ InitSession

\* C22: applying the rename table a second time to the dictionary it was
\* applied to changes nothing and raises nothing.
C22_RenameTwiceIsOnce ==
    (call.fn = "rename" /\ call.ret # None)
        => /\ call.ret[1].twice.exc = ""
           /\ call.ret[1].twice.val = call.ret[1].once.val

----------------------------------------------------------------------------
(* Models and instances: the objects of model.py and instance.py, the      *)
(* analysis of an instance, branches and the lock of an object.            *)
(* objs[1] is a Model; the objects after it are Instances.                 *)

MaxObjs == 3        \* most objects (the Model and the Instances)
MaxCalls == 4       \* most calls the threads make

\* There are two threads, 1 and 2.  The first makes the instances and the
\* branches and solves; both assign parameters and add code and files.

\* MiniZinc code, as the compiler sees it: the output variables a piece of
\* code declares
Declares(c) ==
    CASE c = "var 1..2: return;" -> <<"return">>
      [] c = "var 14..15: x;" -> <<"x">>
      [] OTHER -> <<>>

\* Model.__init__ / the attributes an Instance adds (class attributes hold
\* None; _checker has no value until __init__ assigns one)
NewObject(cls) ==
    [cls |-> cls, parent |-> 0, data |-> EmptyDict, enum_map |-> EmptyDict,
     fragments |-> <<>>, includes |-> <<>>, lock |-> 0,
     output_type |-> None, checker |-> "unset", method_cache |-> None,
     output_cache |-> None, field_renames |-> <<>>]

\* t.__members__ of the enumerated types given as parameter values; no
\* members: the value is not an EnumMeta
Members(t) ==
    CASE t = "TT" -> <<"one">>
      [] t = "UU" -> <<"two", "one">>
      [] OTHER -> <<>>

\* Instance.files: the includes, the data and the code of the instance and
\* of its ancestors.  A parameter that a descendant has assigned becomes a
\* fragment "k = v;"
RECURSIVE FilesData(_, _, _)
FilesData(ks, d, fs) ==
    IF ks = <<>> THEN fs
    ELSE LET k == Head(ks)
         IN  FilesData(Tail(ks), d,
                IF k \in DOMAIN fs.data
                THEN [fs EXCEPT !.fragments = Append(@, k \o " = " \o d[k] \o ";")]
                ELSE [fs EXCEPT !.data = Put(@, k, IF Members(d[k]) # <<>>
                                                    THEN Members(d[k]) ELSE <<d[k]>>)])

RECURSIVE FilesFrom(_, _, _)
FilesFrom(os, inst, fs) ==
    IF inst = 0 THEN fs
    ELSE LET ks == SelectSeq(<<"n", "t">>, LAMBDA k : k \in DOMAIN os[inst].data)
             a == FilesData(ks, os[inst].data, fs)
         IN  FilesFrom(os, os[inst].parent,
                       [a EXCEPT !.fragments = @ \o os[inst].fragments,
                                 !.includes = @ \o os[inst].includes])

files(os, inst) ==
    FilesFrom(os, inst, [includes |-> <<>>, data |-> EmptyDict, fragments |-> <<>>])

\* minizinc --model-interface-only on these files
Interface(fs) ==
    LET cs == fs.fragments \o fs.includes
    IN  [method |-> IF \E i \in 1..Len(cs) : cs[i] = "solve minimize x;"
                    THEN "min" ELSE "sat",
         output |-> Flatten([i \in 1..Len(cs) |-> Declares(cs[i])])]

Range(seq) == {seq[i] : i \in 1..Len(seq)}

\* Instance.analyse on object o whose files give interface itf, with the
\* generated types ts: the object and the types afterwards, and the
\* exception raised
analyse(o, itf, ts) ==
    LET m  == CASE itf.method = "sat" -> "SATISFY"      \* Method.from_string
                [] itf.method = "min" -> "MINIMIZE"
                [] OTHER -> "MAXIMIZE"
        oc == itf.output \o <<"_output_item">>
        o1 == [o EXCEPT !.method_cache = Some(m), !.output_cache = Some(oc)]
    IN  IF o.checker = "unset"
        THEN [obj |-> o1, types |-> ts, exc |-> "AttributeError"]
        ELSE LET oc2 == oc \o <<"_checker">>
                 o2  == [o1 EXCEPT !.output_cache = Some(oc2)]
             IN  IF o.output_type = None
                    \/ o.output_cache = None
                    \/ Range(oc2) # Range(o.output_cache[1])
                    \/ Some(m) # o.method_cache
                 THEN LET keys == (IF m # "SATISFY" /\ "objective" \notin Range(oc2)
                                   THEN <<"objective">> ELSE <<>>) \o oc2
                          fields == [i \in 1..Len(keys) |->
                                        IF keys[i] \notin {"_output_item", "_checker"}
                                           /\ iskeyword(keys[i])
                                        THEN "mzn_" \o keys[i] ELSE keys[i]]
                      IN  [obj |-> [o2 EXCEPT !.field_renames = FieldRenames(oc2),
                                              !.output_type = Some(Len(ts) + 1)],
                           types |-> Append(ts, fields),
                           exc |-> ""]
                 ELSE [obj |-> o2, types |-> ts, exc |-> ""]

\* Model._register_enum_values: the enum map afterwards and the exception
\* raised (the names before the clashing one stay registered)
RECURSIVE _register_enum_values(_, _, _)
_register_enum_values(enum_map, t, names) ==
    IF names = <<>> THEN [enum_map |-> enum_map, exc |-> ""]
    ELSE IF Head(names) \in DOMAIN enum_map
         THEN [enum_map |-> enum_map, exc |-> "AssertionError"]
         ELSE _register_enum_values(Put(enum_map, Head(names), <<t, Head(names)>>),
                                    t, Tail(names))

\* A faulty variant of the assignment, to compare with __setitem__: the new
\* value replaces the one the parameter holds
SetItemOverwrites(o, key, value) ==
    LET r == IF Members(value) # <<>>
             THEN _register_enum_values(o.enum_map, value, Members(value))
             ELSE [enum_map |-> o.enum_map, exc |-> ""]
    IN  IF r.exc # ""
        THEN [obj |-> [o EXCEPT !.enum_map = r.enum_map], exc |-> r.exc]
        ELSE [obj |-> [o EXCEPT !.enum_map = r.enum_map, !.data = Put(@, key, value)],
              exc |-> ""]

\* Model.__setitem__, once it holds the lock
__setitem__(o, key, value) ==
    IF key \notin DOMAIN o.data \/ o.data[key] = "None"
    THEN LET r == IF Members(value) # <<>>
                  THEN _register_enum_values(o.enum_map, value, Members(value))
                  ELSE [enum_map |-> o.enum_map, exc |-> ""]
         IN  IF r.exc # ""
             THEN [obj |-> [o EXCEPT !.enum_map = r.enum_map], exc |-> r.exc]
             ELSE [obj |-> [o EXCEPT !.enum_map = r.enum_map,
                                     !.data = Put(@, key, value)],
                   exc |-> ""]
    ELSE IF o.data[key] # value
         THEN [obj |-> o, exc |-> "AssertionError"]
         ELSE [obj |-> o, exc |-> ""]

\* Instance._reset_analysis (a Model has no analysis to reset)
_reset_analysis(o) == IF o.cls = "Instance" THEN [o EXCEPT !.method_cache = None] ELSE o

\* The part of a call that runs under the lock of the object
Locked(o, b) ==
    CASE b.op = "__setitem__" -> __setitem__(o, b.key, b.arg)
      [] b.op = "add_string" -> [obj |-> [o EXCEPT !.fragments = Append(@, b.arg)], exc |-> ""]
      [] b.op = "add_file" -> [obj |-> [o EXCEPT !.includes = Append(@, b.arg)], exc |-> ""]
      [] OTHER -> [obj |-> o, exc |-> ""]

Returned(t, b, exc, value) ==
    Some([t |-> t, op |-> b.op, obj |-> b.obj, key |-> b.key, arg |-> b.arg,
          exc |-> exc, value |-> value])

\* A faulty variant of a modifying call, to compare with Modify: a branched
\* child shares the dictionaries and lists of its parent, so that a change
\* of the child is a change of the parent
ModifyShared(t, b) ==
    /\ blocked[t] = None /\ ncalls < MaxCalls
    /\ objs[b.obj].lock = 0
    /\ \E r \in {Locked(_reset_analysis(objs[b.obj]), b)} :
          /\ objs' = [i \in 1..Len(objs) |->
                         IF i = b.obj THEN r.obj
                         ELSE IF i = objs[b.obj].parent THEN Locked(objs[i], b).obj
                         ELSE objs[i]]
          /\ last' = Returned(t, b, r.exc, None)
    /\ ncalls' = ncalls + 1
    /\ UNCHANGED <<sessionVars, call, types, blocked>>

\* A faulty variant of a modifying call, to compare with Modify: the lock
\* of the object is not looked at
ModifyUnlocked(t, b) ==
    /\ blocked[t] = None /\ ncalls < MaxCalls
    /\ \E r \in {Locked(_reset_analysis(objs[b.obj]), b)} :
          /\ objs' = [objs EXCEPT ![b.obj] = r.obj]
          /\ last' = Returned(t, b, r.exc, None)
          /\ UNCHANGED blocked
    /\ ncalls' = ncalls + 1
    /\ UNCHANGED <<sessionVars, call, types>>

\* Thread t calls obj[key] = value, obj.add_string(code) or obj.add_file(f):
\* an Instance first resets its analysis (add_string, add_file); the change
\* is made under the lock of the object, for which the thread waits
Modify(t, b) ==
    /\ blocked[t] = None /\ ncalls < MaxCalls
    /\ \E o \in {IF b.op = "__setitem__" THEN objs[b.obj] ELSE _reset_analysis(objs[b.obj])} :
          IF o.lock = 0
          THEN \E r \in {Locked(o, b)} :
                  /\ objs' = [objs EXCEPT ![b.obj] = r.obj]
                  /\ last' = Returned(t, b, r.exc, None)
                  /\ UNCHANGED blocked
          ELSE /\ objs' = [objs EXCEPT ![b.obj] = o]
               /\ blocked' = [blocked EXCEPT ![t] = Some(b)]
               /\ UNCHANGED last
    /\ ncalls' = ncalls + 1
    /\ UNCHANGED <<sessionVars, call, types>>

Call(op, obj, key, arg) == [op |-> op, obj |-> obj, key |-> key, arg |-> arg]

SetItem ==
    \E t \in {1, 2}, obj \in 1..Len(objs), value \in {"14", "15", "None", "TT"} :
        Modify(t, Call("__setitem__", obj, "n", value))

AddString ==
    \E t \in {1, 2}, obj \in 1..Len(objs), c \in {"constraint true;"} :
        Modify(t, Call("add_string", obj, "", c))

AddFile ==
    \E t \in {1, 2}, obj \in 1..Len(objs) : Modify(t, Call("add_file", obj, "", "m.mzn"))

\* Instance(solver, model) for the Model objs[m], and Instance(solver) for
\* m = 0: the attributes of the model are copied and, when the model has no
\* output_type yet, the instance is analysed and its output_type is stored
\* on the model
NewInstance ==
    \E t \in {1}, m \in {0} \cup {i \in 1..Len(objs) : objs[i].cls = "Model"} :
        /\ blocked[t] = None /\ ncalls < MaxCalls /\ Len(objs) < MaxObjs
        /\ \E id \in {Len(objs) + 1} :
           \E o \in {IF m = 0 THEN NewObject("Instance")
                     ELSE [NewObject("Instance") EXCEPT
                              !.output_type = objs[m].output_type,
                              !.includes = objs[m].includes,
                              !.fragments = objs[m].fragments,
                              !.data = objs[m].data,
                              !.enum_map = objs[m].enum_map,
                              !.checker = "True"]} :
              IF m # 0 /\ o.output_type = None
              THEN \E r \in {analyse(o, Interface(files(Append(objs, o), id)), types)} :
                      /\ objs' = IF r.exc # "" THEN objs
                                 ELSE Append([objs EXCEPT ![m].output_type = r.obj.output_type],
                                             r.obj)
                      /\ types' = r.types
                      /\ last' = Returned(t, Call("Instance", id, "", m), r.exc, None)
              ELSE /\ objs' = Append(objs, o)
                   /\ last' = Returned(t, Call("Instance", id, "", m), "", None)
                   /\ UNCHANGED types
        /\ ncalls' = ncalls + 1
        /\ UNCHANGED <<sessionVars, call, blocked>>

\* Instance.method for object i: the instance is analysed when the cache is
\* empty
Method(os, i, ts) ==
    IF os[i].method_cache = None
    THEN analyse(os[i], Interface(files(os, i)), ts)
    ELSE [obj |-> os[i], types |-> ts, exc |-> ""]

\* with parent.branch() as child: the child is made, it takes the analysis
\* of the parent, and the lock of the parent is taken
BranchEnter ==
    \E t \in {1}, i \in {j \in 1..Len(objs) : objs[j].cls = "Instance"} :
        /\ blocked[t] = None /\ ncalls < MaxCalls /\ Len(objs) < MaxObjs
        /\ \E r \in {Method(objs, i, types)} :
              /\ types' = r.types
              /\ IF r.exc # ""
                 THEN /\ objs' = [objs EXCEPT ![i] = r.obj]
                      /\ last' = Returned(t, Call("branch", i, "", ""), r.exc, None)
                      /\ UNCHANGED blocked
                 ELSE \E child \in {[NewObject("Instance") EXCEPT
                                        !.parent = i,
                                        !.method_cache = r.obj.method_cache,
                                        !.output_type = r.obj.output_type,
                                        !.output_cache = r.obj.output_cache]} :
                         IF r.obj.lock = 0
                         THEN /\ objs' = Append([objs EXCEPT ![i] = [r.obj EXCEPT !.lock = t]],
                                                child)
                              /\ last' = Returned(t, Call("branch", i, "", ""), "",
                                                  Len(objs) + 1)
                              /\ UNCHANGED blocked
                         ELSE /\ objs' = [objs EXCEPT ![i] = r.obj]
                              /\ blocked' = [blocked EXCEPT
                                                ![t] = Some(Call("branch", i, "", child))]
                              /\ UNCHANGED last
        /\ ncalls' = ncalls + 1
        /\ UNCHANGED <<sessionVars, call>>

\* The with statement of a branch ends: the lock of the parent is released
BranchExit ==
    \E t \in {1, 2}, i \in 1..Len(objs) :
        /\ blocked[t] = None
        /\ objs[i].lock = t
        /\ objs' = [objs EXCEPT ![i].lock = 0]
        /\ last' = Returned(t, Call("exit", i, "", ""), "", None)
        /\ UNCHANGED <<sessionVars, call, types, blocked, ncalls>>

\* The lock a thread waits for is free: its call goes on
Resume ==
    \E t \in {1, 2} :
        /\ blocked[t] # None
        /\ \E b \in {blocked[t][1]} :
              /\ objs[b.obj].lock = 0
              /\ IF b.op = "branch"
                 THEN /\ Len(objs) < MaxObjs
                      /\ objs' = Append([objs EXCEPT ![b.obj].lock = t], b.arg)
                      /\ last' = Returned(t, Call("branch", b.obj, "", ""), "", Len(objs) + 1)
                 ELSE \E r \in {Locked(objs[b.obj], b)} :
                         /\ objs' = [objs EXCEPT ![b.obj] = r.obj]
                         /\ last' = Returned(t, b, r.exc, None)
        /\ blocked' = [blocked EXCEPT ![t] = None]
        /\ UNCHANGED <<sessionVars, call, types, ncalls>>

\* _parse_stream_obj, for a solution message: the field map handed to the
\* output type
SolutionFields(renames, tmp) ==
    LET t1 == IF "_objective" \in DOMAIN tmp
              THEN Put(Pop(tmp, "_objective"), "objective", tmp["_objective"]) ELSE tmp
        t2 == IF "_output" \in DOMAIN t1
              THEN Put(Pop(t1, "_output"), "_output_item", t1["_output"]) ELSE t1
    IN  ApplyRenames(renames, t2)

\* self.output_type(**tmp) for a generated dataclass with these fields:
\* _output_item and _checker have a default, the other fields are required
Construct(fields, tmp) ==
    IF \/ \E k \in DOMAIN tmp : k \notin Range(fields)
       \/ \E f \in Range(fields) \ {"_output_item", "_checker"} : f \notin DOMAIN tmp
    THEN [exc |-> "TypeError", val |-> EmptyDict]
    ELSE [exc |-> "", val |-> [f \in Range(fields) |-> IF f \in DOMAIN tmp THEN tmp[f] ELSE ""]]

\* instance.solve(): the method is looked up (which analyses the instance
\* when its analysis was reset), MiniZinc runs on the files of the instance
\* and its solution message is turned into a solution
Solve ==
    \E t \in {1}, i \in {j \in 1..Len(objs) : objs[j].cls = "Instance"} :
        /\ blocked[t] = None /\ ncalls < MaxCalls
        /\ \E r \in {Method(objs, i, types)} :
              /\ types' = r.types
              /\ objs' = [objs EXCEPT ![i] = r.obj]
              /\ IF r.exc # ""
                 THEN last' = Returned(t, Call("solve", i, "", ""), r.exc, None)
                 ELSE IF r.obj.output_type = None
                 THEN last' = Returned(t, Call("solve", i, "", ""), "AssertionError", None)
                 ELSE \E itf \in {Interface(files(objs', i))} :
                      \E raw \in {[k \in Range(itf.output) \cup {"_output"}
                                        \cup (IF itf.method = "sat" THEN {}
                                              ELSE {"_objective"}) |-> "1"]} :
                      \E f \in {SolutionFields(r.obj.field_renames, raw)} :
                      \E c \in {Construct(r.types[r.obj.output_type[1]], f.val)} :
                         last' = Returned(t, Call("solve", i, "", ""),
                                          IF f.exc # "" THEN f.exc ELSE c.exc,
                                          IF f.exc # "" \/ c.exc # "" THEN None
                                          ELSE [type |-> r.obj.output_type[1],
                                                fields |-> c.val])
        /\ ncalls' = ncalls + 1
        /\ UNCHANGED <<sessionVars, call, blocked>>

InitModel ==
    /\ SessionIdle
    /\ call = NoCall
    /\ \E c \in {<<>>, <<"var 1..2: return;">>, <<"var 14..15: x;">>,
                 <<"var 14..15: x;", "solve minimize x;">>,
                 <<"var 1..2: return;", "var 14..15: x;">>} :
          objs = <<[NewObject("Model") EXCEPT !.fragments = c]>>
    /\ types = <<>>
    /\ blocked = [t \in {1, 2} |-> None]
    /\ last = None
    /\ ncalls = 0

NextModel ==
    \/ NewInstance \/ SetItem \/ AddString \/ AddFile
    \/ BranchEnter \/ BranchExit \/ Resume \/ Solve

ModelSpec == InitModel /\ [][NextModel]_vars

\* C23: every solve of an instance whose model has an output variable named
\* by a Python keyword yields a solution, and the solution holds the
\* variable under the name with the prefix mzn_.
C23_KeywordsExposed ==
    (last # None /\ last[1].op = "solve")
        => \A k \in {x \in Range(Interface(files(objs, last[1].obj)).output) : iskeyword(x)} :
              /\ last[1].exc = ""
              /\ ("mzn_" \o k) \in DOMAIN last[1].value.fields

----------------------------------------------------------------------------
(* More library functions called on their own *)

\* A faulty variant of the decoder, to compare with transform_enum_object:
\* a member name that is not registered decodes to its place after the
\* members the instance has registered
transform_enum_objectNumbers(enum_map, obj) ==
    IF DOMAIN obj = {"e"}
    THEN IF obj.e \in DOMAIN enum_map
         THEN [kind |-> "member", val |-> enum_map[obj.e]]
         ELSE [kind |-> "int", val |-> Cardinality(DOMAIN enum_map) + 1]
    ELSE [kind |-> "dict", val |-> obj]

\* MZNJSONDecoder.transform_enum_object with self.enum_map = enum_map: what
\* the object decodes to (a str, a registered member, a ConstrEnum, an
\* AnonEnum, or the dict itself)
transform_enum_object(enum_map, obj) ==
    IF "e" \in DOMAIN obj
    THEN IF Cardinality(DOMAIN obj) = 1
         THEN IF obj.e \in DOMAIN enum_map
              THEN [kind |-> "member", val |-> enum_map[obj.e]]
              ELSE [kind |-> "str", val |-> obj.e]
         ELSE IF Cardinality(DOMAIN obj) = 2 /\ "c" \in DOMAIN obj
         THEN [kind |-> "ConstrEnum", val |-> <<obj.c, obj.e>>]
         ELSE IF Cardinality(DOMAIN obj) = 2 /\ "i" \in DOMAIN obj
         THEN [kind |-> "AnonEnum", val |-> <<obj.e, obj.i>>]
         ELSE [kind |-> "dict", val |-> obj]
    ELSE [kind |-> "dict", val |-> obj]

\* Two instances, each with the enum map its user has registered and the
\* members its model declares for the enum, and an object both solvers may
\* write
InitEnum ==
    \E m1, m2 \in {_register_enum_values(EmptyDict, t, Members(t)).enum_map :
                      t \in {"TT", "UU", "None"}} :
    \E d1, d2 \in {{"Mo", "Tu", "one"}, {"Mo", "one"}} :
    \E n \in d1 \cap d2 :
    \E obj \in {[e |-> n], [e |-> n, i |-> "1"], [c |-> "C", e |-> n], [set |-> n]} :
        call = [fn |-> "transform_enum_object",
                args |-> [enum_maps |-> <<m1, m2>>, declared |-> <<d1, d2>>, obj |-> obj],
                ret |-> None]

\* Both instances decode the object
DecodeEnum ==
    /\ call.fn = "transform_enum_object" /\ call.ret = None
    /\ call' = [call EXCEPT !.ret =
                   Some([i \in 1..2 |-> transform_enum_object(call.args.enum_maps[i],
                                                              call.args.obj)])]
    /\ UNCHANGED <<sessionVars, objs, types, blocked, last, ncalls>>

\* The error stream handed to parse_error is a sequence of units: the
\* markers of the kinds of error, locations ("path:line: " or
\* "path:line.col-col: ", the white space after the colon included), other
\* text, white space, and a byte that is not UTF-8.
MaxErrLen == 2      \* most units of an error stream

\* re.search(rb"([^\s]+):(\d+)(.(\d+)-(\d+))?:\s", unit): the Location of a
\* unit that is a location
LocationOf(u) ==
    CASE u = "m.mzn:3: " -> Some([file |-> "m.mzn", lines |-> <<3, 3>>, columns |-> <<0, 0>>])
      [] u = "m.mzn:3.20-26: " ->
             Some([file |-> "m.mzn", lines |-> <<3, 3>>, columns |-> <<20, 26>>])
      [] u = "gone.mzn:3.20-26: " ->
             Some([file |-> "gone.mzn", lines |-> <<3, 3>>, columns |-> <<20, 26>>])
      [] u = "locked.mzn:3: " ->
             Some([file |-> "locked.mzn", lines |-> <<3, 3>>, columns |-> <<0, 0>>])
      [] OTHER -> None

\* The files of the machine: m.mzn can be read, locked.mzn exists and can
\* not be opened, no other file exists
PathState(file) ==
    CASE file = "m.mzn" -> "readable"
      [] file = "locked.mzn" -> "unreadable"
      [] OTHER -> "missing"

\* parse_error(error_txt): the exception it raises ("" when it returns) and
\* the error it returns: its class, its location, the text of its message
\* and whether the message holds a file fragment.  Location has no
\* attribute line (its field is lines), so that the first statement under
\* the opened file raises AttributeError.
parse_error(error_txt) ==
    LET error == IF In("MiniZinc: evaluation error:", error_txt)
                 THEN IF In("Assertion failed:", error_txt) THEN "AssertionError"
                      ELSE "EvaluationError"
                 ELSE IF In("MiniZinc: type error:", error_txt) THEN "TypeError"
                 ELSE IF In("Error: syntax error", error_txt) THEN "SyntaxError"
                 ELSE "MiniZincError"
        located == SelectSeq(error_txt, LAMBDA u : LocationOf(u) # None)
        location == IF located = <<>> THEN None ELSE LocationOf(located[1])
        message == Strip(error_txt)
        ret(m, fragment) == [exc |-> "", cls |-> error, location |-> location,
                             message |-> m, fragment |-> fragment]
        raise(exc) == [exc |-> exc, cls |-> "", location |-> None, message |-> <<>>,
                       fragment |-> FALSE]
    IN  IF In("<ff>", error_txt) THEN raise("UnicodeDecodeError")
        ELSE IF message = <<>>
        THEN ret(<<"MiniZinc stopped with a non-zero exit code, but did not output an error message. ">>,
                 FALSE)
        ELSE IF location # None /\ PathState(location[1].file) # "missing"
        THEN IF PathState(location[1].file) = "unreadable" THEN raise("PermissionError")
             ELSE raise("AttributeError")
        ELSE ret(message, FALSE)

\* An error stream
InitParseError ==
    \E error_txt \in UNION {[1..n -> {"MiniZinc: evaluation error:", "Assertion failed:",
                                      "MiniZinc: type error:", "Error: syntax error",
                                      "m.mzn:3: ", "m.mzn:3.20-26: ", "gone.mzn:3.20-26: ",
                                      "locked.mzn:3: ", "<ff>", NL, "text"}] :
                            n \in 0..MaxErrLen} :
        call = [fn |-> "parse_error", args |-> [error_txt |-> error_txt], ret |-> None]

\* parse_error is called with the stream
CallParseError ==
    /\ call.fn = "parse_error" /\ call.ret = None
    /\ call' = [call EXCEPT !.ret = Some(parse_error(call.args.error_txt))]
    /\ UNCHANGED <<sessionVars, objs, types, blocked, last, ncalls>>

\* The output handed to from_process is a sequence of units: solutions,
\* the separators, a banner, and the comment lines of the statistics.
MaxOutLen == 3      \* most units of the output of a completed process

\* re.split(rb"----------|==========", stdout)
RECURSIVE re_split(_)
re_split(stdout) ==
    LET at == {i \in 1..Len(stdout) : stdout[i] \in {DASHES, "=========="}}
    IN  IF at = {} THEN <<stdout>>
        ELSE LET i == CHOOSE j \in at : \A k \in at : j <= k
             IN  <<Prefix(stdout, i - 1)>> \o re_split(Suffix(stdout, i))

\* The loop of from_process over the chunks of the output: the solutions
\* appended to res._solutions, until json.loads raises
RECURSIVE ParseChunks(_, _)
ParseChunks(sol_stream, r) ==
    IF sol_stream = <<>> \/ r.exc # "" THEN r
    ELSE LET raw_sol == Head(sol_stream)
             sol_json == Strip(SelectSeq(raw_sol, LAMBDA u : u \notin {STAT, TIME}))
             stats == IF In(TIME, raw_sol) THEN Put(EmptyDict, "time", 5) ELSE EmptyDict
         IN  ParseChunks(Tail(sol_stream),
                 IF ~ \E i \in 1..Len(sol_json) : sol_json[i] \in LegacySols THEN r
                 ELSE IF Len(sol_json) # 1 THEN [r EXCEPT !.exc = "JSONDecodeError"]
                 ELSE [r EXCEPT !.solutions =
                          Append(@, [assignments |-> [k \in {"x"} |->
                                                         IF sol_json[1] = "{x:1}" THEN 1 ELSE 2],
                                     objective |-> None,
                                     statistics |-> stats])])

\* Result.from_process(instance, proc, ignore_errors) for an instance of
\* method m: the exception it raises ("" when it returns) and the Result.
\* The arguments of the process are a sequence of strings, a number of
\* solutions being one digit.
from_process(m, proc, ignore_errors) ==
    LET err == IF proc.returncode = 0 THEN None ELSE Some(parse_error(proc.stderr))
        st  == IF proc.returncode = 0 THEN from_output(proc.stdout, m) ELSE "ERROR"
        res == [exc |-> "", status |-> st, error |-> err, solutions |-> <<>>,
                stats |-> EmptyDict, complete |-> FALSE, access_all |-> FALSE]
        parsed == ParseChunks(re_split(proc.stdout), res)
        stat == IF In(STAT, proc.stdout) THEN Put(EmptyDict, "nodes", 7) ELSE EmptyDict
        a == \E i \in 1..Len(proc.args) : proc.args[i] = "-a"
        ns == {i \in 1..Len(proc.args) : proc.args[i] = "-n"}
        n == IF ns = {} THEN -1
             ELSE LET i == CHOOSE j \in ns : \A k \in ns : j <= k
                  IN  CASE proc.args[i + 1] = "1" -> 1
                        [] proc.args[i + 1] = "2" -> 2
                        [] OTHER -> 0
        complete == IF m = "SATISFY"
                    THEN IF ns # {} THEN Len(parsed.solutions) = n
                         ELSE st = "SATISFIED"
                    ELSE st = "OPTIMAL_SOLUTION"
    IN  IF err # None /\ err[1].exc # "" THEN [res EXCEPT !.exc = err[1].exc, !.error = None]
        ELSE IF err # None /\ ~ignore_errors THEN [res EXCEPT !.exc = err[1].cls]
        ELSE IF parsed.exc # "" THEN parsed
        ELSE [parsed EXCEPT !.stats = stat,
                            !.complete = complete,
                            !.access_all = m = "SATISFY" /\ (a \/ ns # {})]

\* Result.__getitem__(key) and the item access it passes the key on to: the
\* exception raised ("" when a value is returned).  A key is the name of a
\* variable or the decimal form of an index.
__getitem__(res, key) ==
    LET index == CASE key = "0" -> 0 [] key = "7" -> 7 [] OTHER -> -1
        n == Len(res.solutions)
    IN  IF res.status \in {"SATISFIED", "ALL_SOLUTIONS", "OPTIMAL_SOLUTION"}
        THEN IF res.access_all
             THEN IF index = -1 THEN "TypeError"
                  ELSE IF index < n THEN "" ELSE "IndexError"
             ELSE IF n = 0 THEN "IndexError"
                  ELSE IF index = -1
                  THEN IF key \in DOMAIN res.solutions[n].assignments THEN "" ELSE "KeyError"
                  ELSE IF index < 3 THEN "" ELSE "IndexError"
        ELSE "KeyError"

\* A completed process, the method of its instance, and a key
InitFromProcess ==
    \E stdout \in UNION {[1..n -> {"{x:1}", DASHES, "==========", "=====UNKNOWN=====",
                                   STAT, TIME}] : n \in 0..MaxOutLen} :
    \E m \in {"SATISFY", "MINIMIZE"} :
    \E args \in {<<>>, <<"-a">>, <<"-n", "1">>, <<"-a", "-n", "2">>} :
    \E rc \in {[returncode |-> 0, stderr |-> <<>>, ignore_errors |-> FALSE],
               [returncode |-> 1, stderr |-> <<>>, ignore_errors |-> FALSE],
               [returncode |-> 1, stderr |-> <<"MiniZinc: type error:">>,
                ignore_errors |-> TRUE],
               [returncode |-> 1, stderr |-> <<"m.mzn:3: ", "MiniZinc: type error:">>,
                ignore_errors |-> TRUE]} :
    \E key \in {"x", "0", "7"} :
        call = [fn |-> "from_process",
                args |-> [method |-> m,
                          proc |-> [returncode |-> rc.returncode, stdout |-> stdout,
                                    stderr |-> rc.stderr, args |-> args],
                          ignore_errors |-> rc.ignore_errors,
                          key |-> key],
                ret |-> None]

\* The Result is built and, when from_process has returned it, accessed
\* with the key
CallFromProcess ==
    /\ call.fn = "from_process" /\ call.ret = None
    /\ \E res \in {from_process(call.args.method, call.args.proc, call.args.ignore_errors)} :
          call' = [call EXCEPT !.ret =
                      Some([res |-> res,
                            item |-> IF res.exc # "" THEN "not accessed"
                                     ELSE __getitem__(res, call.args.key)])]
    /\ UNCHANGED <<sessionVars, objs, types, blocked, last, ncalls>>

\* A Model to one of whose parameters nothing, a number or an enumerated
\* type was assigned, and an assignment to that or to another parameter
InitSetItem ==
    \E prior \in {"None", "14", "TT", "UU"} :
    \E key \in {"a", "b"} :
    \E value \in {"14", "TT", "UU"} :
        call = [fn |-> "__setitem__",
                args |-> [o |-> __setitem__(NewObject("Model"), "a", prior).obj,
                          key |-> key, value |-> value],
                ret |-> None]

\* model[key] = value
CallSetItem ==
    /\ call.fn = "__setitem__" /\ call.ret = None
    /\ call' = [call EXCEPT !.ret = Some(__setitem__(call.args.o, call.args.key,
                                                     call.args.value))]
    /\ UNCHANGED <<sessionVars, objs, types, blocked, last, ncalls>>

InitCall == SessionIdle /\ NoObjects /\ (InitRename \/ InitEnum \/ InitParseError \/ InitFromProcess
                                         \/ InitSetItem)
NextCall == RenameTwice \/ DecodeEnum \/ CallParseError \/ CallFromProcess \/ CallSetItem
CallSpec == InitCall /\ [][NextCall]_vars

\* C24: a member name that neither user has registered decodes to equal
\* values in the two instances, whatever else the users have registered and
\* whatever members the two models declare.
C24_UnregisteredDecodeEqual ==
    (/\ call.fn = "transform_enum_object" /\ call.ret # None
     /\ DOMAIN call.args.obj = {"e"}
     /\ \A i \in 1..2 : call.args.obj.e \notin DOMAIN call.args.enum_maps[i])
        => /\ call.ret[1][1].kind = call.ret[1][2].kind
           /\ call.ret[1][1].val = call.ret[1][2].val

\* Two instances with different registered enums and different declared
\* members have decoded the same unregistered member name
C24_Witness ==
    /\ call.fn = "transform_enum_object" /\ call.ret # None
    /\ call.args.obj = [e |-> "Mo"]
    /\ DOMAIN call.args.enum_maps[1] = {"one"}
    /\ DOMAIN call.args.enum_maps[2] = {"one", "two"}
    /\ call.args.declared[1] # call.args.declared[2]
    /\ call.ret[1][1] = [kind |-> "str", val |-> "Mo"]
    /\ call.ret[1][2] = [kind |-> "str", val |-> "Mo"]

\* C25: the instances made from the Model, to which nothing was added since,
\* have the output type that is stored on the Model, also after they have
\* been analysed and solved.
C25_SameOutputType ==
    LET same(i) == /\ objs[i].cls = "Instance" /\ objs[i].parent = 0
                   /\ objs[i].checker = "True"
                   /\ objs[i].fragments = objs[1].fragments
                   /\ objs[i].includes = objs[1].includes
                   /\ objs[i].data = objs[1].data
    IN  \A i, j \in 1..Len(objs) :
            (same(i) /\ same(j))
                => /\ objs[i].output_type = objs[j].output_type
                   /\ objs[i].output_type = objs[1].output_type

C27_ChildLeavesParent ==
    [][/\ \A c \in 1..Len(objs) :
             (/\ objs[c].parent # 0
              /\ <<objs'[c].data, objs'[c].fragments, objs'[c].includes>>
                    # <<objs[c].data, objs[c].fragments, objs[c].includes>>)
                => \E q \in {objs[c].parent} :
                      <<objs'[q].data, objs'[q].fragments, objs'[q].includes>>
                         = <<objs[q].data, objs[q].fragments, objs[q].includes>>
       /\ \A c \in 1..Len(objs') :
             objs'[c].parent # 0
                => \E fc \in {files(objs', c)} : \E fp \in {files(objs', objs'[c].parent)} :
                      /\ Range(fp.includes) \subseteq Range(fc.includes)
                      /\ Range(fp.fragments) \subseteq Range(fc.fragments)
                      /\ \A k \in DOMAIN fp.data :
                            \/ k \in DOMAIN fc.data /\ fc.data[k] = fp.data[k]
                            \/ \E v \in {"14", "15", "None", "TT"} :
                                  /\ fp.data[k] = IF Members(v) # <<>> THEN Members(v)
                                                  ELSE <<v>>
                                  /\ (k \o " = " \o v \o ";") \in Range(fc.fragments)
      ]_vars

\* A child assigned 15 to a parameter to which its parent has assigned 14:
\* the parent still holds 14, and the files of the child hold both
C27_Witness ==
    /\ last # None /\ last[1].op = "__setitem__"
    /\ objs[last[1].obj].parent # 0
    /\ objs[last[1].obj].data = [k \in {"n"} |-> "15"]
    /\ objs[objs[last[1].obj].parent].data = [k \in {"n"} |-> "14"]
    /\ files(objs, last[1].obj).data = [k \in {"n"} |-> <<"15">>]
    /\ "n = 14;" \in Range(files(objs, last[1].obj).fragments)

C29_NoSolutionKeyError ==
    (/\ call.fn = "from_process" /\ call.ret # None
     /\ call.ret[1].res.exc = "" /\ call.ret[1].res.solutions = <<>>)
        => call.ret[1].item = "KeyError"

\* C30: parse_error raises nothing, whatever the error stream, and returns
\* an error of the class of the stream; for a stream with a location whose
\* file exists and can be read the error has that location and its message
\* holds the file fragment.
C30_ParseErrorReturns ==
    (call.fn = "parse_error" /\ call.ret # None)
        => /\ call.ret[1].exc = ""
           /\ call.ret[1].cls \in {"MiniZincError", "EvaluationError", "AssertionError",
                                   "TypeError", "SyntaxError"}
           /\ \A i \in 1..Len(call.args.error_txt) :
                 (/\ LocationOf(call.args.error_txt[i]) # None
                  /\ \A j \in 1..(i - 1) : LocationOf(call.args.error_txt[j]) = None
                  /\ PathState(LocationOf(call.args.error_txt[i])[1].file) = "readable")
                    => /\ call.ret[1].location = LocationOf(call.args.error_txt[i])
                       /\ call.ret[1].fragment

----------------------------------------------------------------------------
(* The end of a session *)

\* solutions() has left `with self.files() as files,
\* self._solver.configuration() as solver`: the finally clauses of the two
\* context managers have removed the generated files
FilesRemoved == pc = "done"

\* C31: when solutions() has finished, having been exhausted, having raised
\* or having been closed by a caller that stopped iterating, the subprocess
\* it started has exited and its exit has been collected.
C31_EndsWithProcessReaped ==
    (Done /\ cancel \in {"never", "closing"} /\ procState # "none")
        => (procState = "exited" /\ reaped)

\* C32: the generated data, model and solver configuration files are removed
\* only when the subprocess that reads them runs no more, however
\* solutions() ends: exhausted, by an exception, cancelled or closed.
C32_FilesOutliveProcess == FilesRemoved => procState \in {"none", "exited"}

\* C33: when the subprocess could not be started, the exception of the
\* failed start is the exception the caller gets.
C33_SpawnErrorUnchanged ==
    (Done /\ procState = "none")
        => (/\ outcome = "raised"
            /\ pending \in {"FileNotFoundError", "PermissionError"}
            /\ raisedErr = pending)

\* C34: structured protocol: a session whose stream ends with a complete
\* message that lacks its line break (the remainder decoder reads it) has
\* yielded the Results of the same stream with the line break (where the
\* streaming loop reads it), the last Result without solution included.
C34_LastLineBreakChangesNothing ==
    (/\ Done /\ protocol = "structured" /\ cancel = "never"
     /\ FitsLimit(prog)
     /\ prog # <<>> /\ prog[Len(prog)] = "}")
        => results = StructuredBlob(Append(prog, NL)).yields

\* C35: the Result solve_async returns for a session that asks for one
\* solution holds a solution exactly when its status is SATISFIED,
\* ALL_SOLUTIONS or OPTIMAL_SOLUTION.
C35_SolutionIffStatus ==
    (Done /\ outcome = "returned" /\ ~multiple)
        => ((sa.solution # PyNone)
               <=> (sa.status \in {"SATISFIED", "ALL_SOLUTIONS", "OPTIMAL_SOLUTION"}))

\* C36: the output of a checker is in no statistics: neither in those of a
\* Result that solutions() has yielded nor in those solve_async collects.
C36_CheckerNotInStatistics ==
    /\ \A i \in 1..Len(results) : "_checker" \notin DOMAIN results[i].statistics
    /\ "_checker" \notin DOMAIN sa.statistics

\* C37: from_process, for a satisfaction problem: with -a and no -n the
\* Result is complete exactly when its status is ALL_SOLUTIONS, and its
\* solutions can all be accessed; with -n k it is complete exactly when k
\* solutions were parsed.
C37_CompleteFollowsFlags ==
    (/\ call.fn = "from_process" /\ call.ret # None
     /\ call.ret[1].res.exc = "" /\ call.args.method = "SATISFY")
        => \E res \in {call.ret[1].res} : \E args \in {call.args.proc.args} :
              /\ args = <<"-a">>
                    => /\ res.complete <=> (res.status = "ALL_SOLUTIONS")
                       /\ res.access_all
              /\ args = <<"-n", "1">> => (res.complete <=> (Len(res.solutions) = 1))
              /\ args = <<"-a", "-n", "2">> => (res.complete <=> (Len(res.solutions) = 2))

\* C38: the assignment of an enumerated type to a parameter that holds no
\* value either registers every member of the type and stores the type, or,
\* when one of the names is registered already, raises AssertionError
\* and leaves the enum map and the data as they were.
C38_EnumAssignmentAtomic ==
    (/\ call.fn = "__setitem__" /\ call.ret # None
     /\ Members(call.args.value) # <<>>
     /\ (call.args.key \notin DOMAIN call.args.o.data
         \/ call.args.o.data[call.args.key] = "None"))
        => \E o \in {call.args.o} : \E r \in {call.ret[1]} :
           \E names \in {Range(Members(call.args.value))} :
              \/ /\ r.exc = ""
                 /\ names \subseteq DOMAIN r.obj.enum_map
                 /\ \A n \in names : r.obj.enum_map[n] = <<call.args.value, n>>
                 /\ r.obj.data = Put(o.data, call.args.key, call.args.value)
              \/ /\ r.exc = "AssertionError"
                 /\ names \cap DOMAIN o.enum_map # {}
                 /\ r.obj.enum_map = o.enum_map
                 /\ r.obj.data = o.data

\* C39: when add_string or add_file has returned on an Instance, the
\* analysis of the instance is empty, so that the next read of method, input
\* or output analyses the instance again: no read returns what was computed
\* before the code or the file was added.
C39_AddResetsAnalysis ==
    (/\ last # None
     /\ last[1].op \in {"add_string", "add_file"}
     /\ last[1].exc = ""
     /\ objs[last[1].obj].cls = "Instance")
        => objs[last[1].obj].method_cache = None

====
